---- MODULE Spec2Model ----
(***************************************************************************)
(* Hybrid retrieval core of OGD-recommendation: Embedder dimension cache,  *)
(* CollectionManager lifecycle, DataVectorStore.upsert / hybrid_search and *)
(* Retriever.retrieve, against an embedding provider and a Milvus index    *)
(* whose answers are chosen by the environment.                            *)
(*                                                                         *)
(* Python values: Optional[T] is a sequence, <<>> for None and <<x>> for   *)
(* a value x; a dict is a set of <<key, value>> pairs; a list is a         *)
(* sequence; a float weight w is the integer 10 * w.  A dense vector is a  *)
(* sequence whose length is its dimension and whose entries name the text  *)
(* it embeds.  An operation is a set of runs, one per way the environment  *)
(* can answer the calls the code makes; a run carries the outcome, the     *)
(* ordered external calls and the embedder's cached dimension afterwards.  *)
(*                                                                         *)
(* Spec is the sequential core; AsyncSpec follows one task of an event     *)
(* loop through aretrieve / aembed_*; ServiceSpec is SearchService, the    *)
(* HTTP application and get_milvus_client; SnippetSpec is                  *)
(* SearchItem.snippet; RaceSpec interleaves concurrent ensure_collection.  *)
(***************************************************************************)
EXTENDS Integers, Sequences, FiniteSets, TLC

\* ------------------------------------------------------------------ bounds
MaxDim == 2
MaxRows == 2
MaxQueries == 5
\* The batch size of the retriever, as MILVUS_BATCH_SIZE sets it (32 when unset).
DEFAULT_BATCH_SIZE == 2

\* The entry "dim" is missing from the Embedder's instance dictionary.
NoDim == 0

\* loop is the event loop of the asynchronous paths and inst the instances
\* under concurrent construction; the sequential operations leave both alone.
VARIABLES collection, emb_cfg, emb_caps, emb_dim, store, pc, op, calls, loop, inst

vars == <<collection, emb_cfg, emb_caps, emb_dim, store, pc, op, calls, loop, inst>>

\* ------------------------------------------------------------ Python values
None == <<>>
Some(x) == <<x>>
Dims == 1..MaxDim
SeqsUpTo(S, n) == UNION {[1..k -> S] : k \in 0..n}
Range(s) == {s[i] : i \in 1..Len(s)}
Vec(t, d) == [k \in 1..d |-> t]

\* One external call as the collaborator sees it: the request and its answer.
Call(api, fn, req, resp) == [api |-> api, fn |-> fn, req |-> req, resp |-> resp]
\* How an operation ended: err = "none" is a normal return of ret.
Run(err, ret, cs, dim) == [err |-> err, ret |-> ret, calls |-> cs, dim |-> dim]

IndexCalls(cs) == SelectSeq(cs, LAMBDA c : c.api = "index")
ProviderCalls(cs) == SelectSeq(cs, LAMBDA c : c.api = "provider")

\* --------------------------------------------------- the embedding provider
\* What the provider can answer to a batch call for n texts: a failure, or
\* `count` vectors of one dimension (which may differ from call to call); the
\* provider's contract is count = n.
ProviderBatchAnswers(n) ==
    {[ok |-> FALSE, dim |-> 1, count |-> 0], [ok |-> TRUE, dim |-> 1, count |-> 0]}
    \cup {[ok |-> TRUE, dim |-> d, count |-> k] : d \in Dims, k \in 1..n}
\* What it can answer to a single-query call: a failure or one vector.
ProviderQueryAnswers == {[ok |-> FALSE, dim |-> 1]} \cup {[ok |-> TRUE, dim |-> d] : d \in Dims}

\* ------------------------------------------------------------- Embedder.dim
\* Embedder.__init__: a truthy cfg["dim"] is stored as the cached dimension.
EmbedderInitDim(cfg_dim) == IF cfg_dim # 0 THEN cfg_dim ELSE NoDim

\* cfg.get("dim") or cfg.get("dimensions"): the first of the two that is not 0 (or absent).
CfgDim(cfg) == IF cfg.dim # 0 THEN cfg.dim ELSE cfg.dimensions

\* A cache that takes every new dimension.
CacheDimLatest(cached, new_dim) == new_dim

\* Embedder._cache_dim: the first dimension seen is kept, a later one is only logged.
CacheDim(cached, new_dim) == IF cached = NoDim THEN new_dim ELSE cached

\* The cached_property `dim`: the instance dictionary first; else the positive
\* configured value; else a probe of the provider with the sentinel, through
\* embed_documents, or embed_query when embed_documents is missing.  Returns
\* runs whose ret is the dimension; a raising probe leaves nothing cached.
ProbeDocuments ==
    { LET c == Call("provider", "embed_documents", <<"Hello World!">>, a) IN
      IF ~a.ok THEN Run("ProviderError", NoDim, <<c>>, NoDim)
      ELSE IF a.count = 0 THEN Run("RuntimeError", NoDim, <<c>>, NoDim)
      ELSE Run("none", a.dim, <<c>>, a.dim)
      : a \in ProviderBatchAnswers(1) }

ProbeQuery ==
    { LET c == Call("provider", "embed_query", <<"Hello World!">>, a) IN
      IF ~a.ok THEN Run("ProviderError", NoDim, <<c>>, NoDim)
      ELSE Run("none", a.dim, <<c>>, a.dim)
      : a \in ProviderQueryAnswers }

EmbedderDim(cached, cfg_dim, caps) ==
    IF cached # NoDim THEN {Run("none", cached, <<>>, cached)}
    ELSE IF cfg_dim > 0 THEN {Run("none", cfg_dim, <<>>, cfg_dim)}
    ELSE IF caps.embed_documents THEN ProbeDocuments
    ELSE IF caps.embed_query THEN ProbeQuery
    ELSE {Run("AttributeError", NoDim, <<>>, NoDim)}

\* ------------------------------------------------------------ the index
\* What Milvus can answer to an upsert of `rows`: "none" is success.  A row
\* with a metadata field is refused by a collection without that field; any
\* call can also fail for reasons of the service (timeout, transport).
HasMetadata(rows) == \E i \in 1..Len(rows) : "metadata" \in DOMAIN rows[i]

UpsertAnswers(col, rows) ==
    IF ~col.exists THEN {"ProviderError"}
    ELSE IF HasMetadata(rows) /\ ~col.has_metadata THEN {"SchemaError", "ProviderError"}
    ELSE IF \E i \in 1..Len(rows) : Len(rows[i].text_dense) # col.dim THEN {"ProviderError"}
    ELSE {"none", "ProviderError"}

\* ------------------------------------------------------ DataVectorStore.upsert
\* metadatas[i] or {}
MetaOrEmpty(m) == IF m = None THEN {} ELSE m[1]

BaseRows(ids, texts, dense_vectors) ==
    [i \in 1..Len(ids) |-> [id |-> ids[i], text |-> texts[i], text_dense |-> dense_vectors[i]]]

WithMetadata(rows, metadatas) ==
    [i \in 1..Len(rows) |->
        [id |-> rows[i].id, text |-> rows[i].text, text_dense |-> rows[i].text_dense,
         metadata |-> MetaOrEmpty(metadatas[i])]]

\* The two attempts in the wrong order: the base rows first.
UpsertAttemptsBaseFirst(base_rows, metadatas) ==
    IF metadatas # None THEN <<base_rows, WithMetadata(base_rows, metadatas[1])>>
    ELSE <<base_rows>>

\* attempts: the rows with metadata first when metadatas is given, then the base rows.
UpsertAttempts(base_rows, metadatas) ==
    IF metadatas # None THEN <<WithMetadata(base_rows, metadatas[1]), base_rows>>
    ELSE <<base_rows>>

\* for payload in attempts: try client.upsert ... return / except: last_err = e.
RECURSIVE UpsertLoop(_, _, _, _, _, _)
UpsertLoop(col, attempts, i, cs, last_err, dim) ==
    IF i > Len(attempts) THEN {Run(last_err, None, cs, dim)}
    ELSE UNION { LET c == Call("index", "upsert", [data |-> attempts[i]], a) IN
                 IF a = "none" THEN {Run("none", None, Append(cs, c), dim)}
                 ELSE UpsertLoop(col, attempts, i + 1, Append(cs, c), a, dim)
                 : a \in UpsertAnswers(col, attempts[i]) }

\* A validation that never rejects.
NeverWrongDim(vectors, expected_dim) == FALSE

\* for i, v in enumerate(dense_vectors): if len(v) != expected_dim: raise ValueError
UpsertWrongDim(dense_vectors, expected_dim) ==
    \E i \in 1..Len(dense_vectors) : Len(dense_vectors[i]) # expected_dim

Upsert(ctx, cached, ids, texts, dense_vectors, metadatas) ==
    IF ~(Len(ids) = Len(texts) /\ Len(texts) = Len(dense_vectors))
    THEN {Run("ValueError", None, <<>>, cached)}
    ELSE IF metadatas # None /\ Len(metadatas[1]) # Len(ids)
    THEN {Run("ValueError", None, <<>>, cached)}
    ELSE UNION { IF d.err # "none" THEN {Run(d.err, None, d.calls, d.dim)}
                 ELSE IF UpsertWrongDim(dense_vectors, d.ret)
                 THEN {Run("ValueError", None, d.calls, d.dim)}
                 ELSE UpsertLoop(ctx.col, UpsertAttempts(BaseRows(ids, texts, dense_vectors), metadatas),
                                 1, d.calls, "none", d.dim)
                 : d \in EmbedderDim(cached, ctx.cfg_dim, ctx.caps) }

\* ------------------------------------------- DataVectorStore.hybrid_search
\* A Python `or` chain takes the first operand that is neither None nor empty.
Truthy(o) == o # None /\ Len(o[1]) > 0

\* weights = ranker_weights or self.ranker_weights or (0.5, 0.5)
Weights(ranker_weights, store_weights) ==
    IF Truthy(ranker_weights) THEN ranker_weights[1]
    ELSE IF Truthy(store_weights) THEN store_weights[1]
    ELSE <<5, 5>>

Max(a, b) == IF a >= b THEN a ELSE b
Min(a, b) == IF a <= b THEN a ELSE b
\* A candidate pool that is not clamped.
PoolLimitUnclamped(limit) == limit * 10

\* int(min(16384, max(512, limit * 10)))
PoolLimit(limit) == Min(16384, Max(512, limit * 10))

\* search_params = {"hints": "iterative_filter"} when a filter is given.
SearchParams(filter_expression) ==
    IF filter_expression # None THEN Some([hints |-> "iterative_filter"]) ELSE None

ReqDense(query_denses, limit, filter_expression) ==
    [data |-> query_denses, anns_field |-> "text_dense", limit |-> PoolLimit(limit),
     expr |-> filter_expression]

ReqSparse(query_texts, limit, filter_expression) ==
    [data |-> query_texts, anns_field |-> "text_sparse", limit |-> PoolLimit(limit),
     expr |-> filter_expression]

\* The first client.hybrid_search call of the try block.
FirstSearch(query_texts, query_denses, limit, weights, filter_expression) ==
    [reqs |-> <<ReqDense(query_denses, limit, filter_expression),
                ReqSparse(query_texts, limit, filter_expression)>>,
     ranker |-> <<weights[1], weights[2]>>,
     limit |-> limit,
     output_fields |-> <<"id", "text", "text_dense", "metadata">>,
     search_params |-> SearchParams(filter_expression)]

\* The call of the except block: no metadata, and no search_params keyword.
RetrySearch(query_texts, query_denses, limit, weights, filter_expression) ==
    [reqs |-> <<ReqDense(query_denses, limit, filter_expression),
                ReqSparse(query_texts, limit, filter_expression)>>,
     ranker |-> <<weights[1], weights[2]>>,
     limit |-> limit,
     output_fields |-> <<"id", "text", "text_dense">>,
     search_params |-> None]

\* What Milvus can answer to a hybrid search: "none" is success.
SearchAnswers(col, request) ==
    IF ~col.exists THEN {"ProviderError"}
    ELSE IF "metadata" \in Range(request.output_fields) /\ ~col.has_metadata
    THEN {"SchemaError", "ProviderError"}
    ELSE IF \E i \in 1..Len(request.reqs[1].data) : Len(request.reqs[1].data[i]) # col.dim
    THEN {"ProviderError"}
    ELSE {"none", "ProviderError"}

\* The identifiers a stored row can have: a UUID in its hyphenated form, the
\* same UUID as 32 hex digits, and two strings that are no UUID.
CanonicalId == "0f8fad5b-d9cb-469f-a165-70867728950e"
HexId == "0f8fad5bd9cb469fa16570867728950e"
StoredIds == {CanonicalId, HexId, "program-17", "None"}

\* The hits of a successful search: one ranked list per query, whose hit
\* names the query text and vector it answers.
Hit(id, text, dense, fields) ==
    IF "metadata" \in Range(fields)
    THEN [id |-> id, text |-> text, text_dense |-> dense, distance |-> 1, metadata |-> Some({})]
    ELSE [id |-> id, text |-> text, text_dense |-> dense, distance |-> 1, metadata |-> None]

\* The identifiers of the result sets of one answer: all of one stored form,
\* or the first result set's replaced by a string that is no UUID.
HitIdChoices(n) ==
    {[i \in 1..n |-> id] : id \in {CanonicalId, HexId}}
    \cup {[i \in 1..n |-> IF i = 1 THEN bad ELSE CanonicalId] : bad \in StoredIds \ {CanonicalId, HexId}}

SearchHits(request, ids) ==
    [i \in 1..Len(request.reqs[2].data) |->
        <<Hit(ids[i], request.reqs[2].data[i], request.reqs[1].data[i], request.output_fields)>>]

\* One client.hybrid_search call: the request, how it ended, the hits it returned.
SearchCall(req, resp, hits) ==
    [api |-> "index", fn |-> "hybrid_search", req |-> req, resp |-> resp, hits |-> hits]

\* try: return client.hybrid_search(first) / except Exception: return client.hybrid_search(retry)
SearchWithFallback(col, first, retry, cs, dim) ==
    LET n == Len(first.reqs[2].data) IN
    UNION { IF a1 = "none"
            THEN { Run("none", SearchHits(first, ids),
                       Append(cs, SearchCall(first, a1, SearchHits(first, ids))), dim)
                   : ids \in HitIdChoices(n) }
            ELSE UNION { IF a2 = "none"
                         THEN { Run("none", SearchHits(retry, ids),
                                    cs \o <<SearchCall(first, a1, <<>>),
                                            SearchCall(retry, a2, SearchHits(retry, ids))>>, dim)
                                : ids \in HitIdChoices(n) }
                         ELSE {Run(a2, <<>>, cs \o <<SearchCall(first, a1, <<>>),
                                                     SearchCall(retry, a2, <<>>)>>, dim)}
                         : a2 \in SearchAnswers(col, retry) }
            : a1 \in SearchAnswers(col, first) }

\* for i, query_dense in enumerate(query_denses): if len(query_dense) != expected_dim: raise
QueryWrongDim(query_denses, expected_dim) ==
    \E i \in 1..Len(query_denses) : Len(query_denses[i]) # expected_dim

HybridSearchChecked(ctx, query_texts, query_denses, limit, ranker_weights, filter_expression, d) ==
    LET weights == Weights(ranker_weights, ctx.ranker_weights) IN
    IF QueryWrongDim(query_denses, d.ret) THEN {Run("ValueError", <<>>, d.calls, d.dim)}
    ELSE IF Len(weights) # 2 THEN {Run("ValueError", <<>>, d.calls, d.dim)}
    ELSE SearchWithFallback(ctx.col,
            FirstSearch(query_texts, query_denses, limit, weights, filter_expression),
            RetrySearch(query_texts, query_denses, limit, weights, filter_expression),
            d.calls, d.dim)

\* An empty-input test that never returns early.
NeverEmpty(query_texts) == FALSE

\* if not query_texts: return []
NoQueries(query_texts) == Len(query_texts) = 0

HybridSearch(ctx, cached, query_texts, query_denses, limit, ranker_weights, filter_expression) ==
    IF Len(query_texts) # Len(query_denses) THEN {Run("ValueError", <<>>, <<>>, cached)}
    ELSE IF NoQueries(query_texts) THEN {Run("none", <<>>, <<>>, cached)}
    ELSE UNION { IF d.err # "none" THEN {Run(d.err, <<>>, d.calls, d.dim)}
                 ELSE HybridSearchChecked(ctx, query_texts, query_denses, limit,
                                          ranker_weights, filter_expression, d)
                 : d \in EmbedderDim(cached, ctx.cfg_dim, ctx.caps) }

\* --------------------------------------------------------- CollectionManager
\* A lifecycle run: the outcome, the collection afterwards, the calls, the cached dimension.
LifeRun(err, col, cs, dim) == [err |-> err, col |-> col, calls |-> cs, dim |-> dim]

Absent == [exists |-> FALSE, dim |-> 1, has_metadata |-> TRUE]
\* The schema ensure_collection builds: a metadata field, text_dense of the embedder's dimension.
Created(dim) == [exists |-> TRUE, dim |-> dim, has_metadata |-> TRUE]

\* What Milvus can answer to create_collection: a dimension below 1 is
\* refused; so is an existing collection, unless the schema is the one it
\* has, which the service may also accept and leave as it is.
CreateAnswers(col, dim) ==
    IF dim < 1 THEN {"ProviderError"}
    ELSE IF col.exists /\ ~(col.dim = dim /\ col.has_metadata) THEN {"ProviderError"}
    ELSE {"none", "ProviderError"}

EnsureCollection(ctx, cached) ==
    LET col == ctx.col
        has == Call("index", "has_collection", <<>>, col.exists) IN
    IF col.exists THEN {LifeRun("none", col, <<has>>, cached)}
    ELSE UNION { IF d.err # "none" THEN {LifeRun(d.err, col, <<has>> \o d.calls, d.dim)}
                 ELSE { LET c == Call("index", "create_collection", [dim |-> d.ret], a) IN
                        LifeRun(a, IF a = "none" THEN Created(d.ret) ELSE col,
                                <<has>> \o d.calls \o <<c>>, d.dim)
                        : a \in CreateAnswers(col, d.ret) }
                 : d \in EmbedderDim(cached, ctx.cfg_dim, ctx.caps) }

\* What Milvus can answer to drop_collection.
DropAnswers(col) == IF col.exists THEN {"none", "ProviderError"} ELSE {"ProviderError"}

\* A drop that does not ask whether the collection exists.
DropCollectionUnchecked(ctx, cached) ==
    { LifeRun(a, IF a = "none" THEN Absent ELSE ctx.col,
              <<Call("index", "drop_collection", <<>>, a)>>, cached)
      : a \in DropAnswers(ctx.col) }

\* CollectionManager.drop_collection: drops the collection when has_collection finds it.
DropCollection(ctx, cached) ==
    LET col == ctx.col
        has == Call("index", "has_collection", <<>>, col.exists) IN
    IF ~col.exists THEN {LifeRun("none", col, <<has>>, cached)}
    ELSE { LifeRun(a, IF a = "none" THEN Absent ELSE col,
                   <<has, Call("index", "drop_collection", <<>>, a)>>, cached)
           : a \in DropAnswers(col) }

\* A reset that ensures first and drops afterwards.
ResetCollectionEnsureFirst(ctx, cached) ==
    UNION { IF e.err # "none" THEN {e}
            ELSE { LifeRun(d.err, d.col, e.calls \o d.calls, d.dim)
                   : d \in DropCollection([ctx EXCEPT !.col = e.col], e.dim) }
            : e \in EnsureCollection(ctx, cached) }

\* CollectionManager.reset_collection: drop_collection(), then ensure_collection().
\* A drop that raises ends the reset; the run "Interrupted" is the process
\* stopped between the two statements.
ResetCollection(ctx, cached) ==
    UNION { IF d.err # "none" THEN {d}
            ELSE {LifeRun("Interrupted", d.col, d.calls, d.dim)}
                 \cup { LifeRun(e.err, e.col, d.calls \o e.calls, e.dim)
                        : e \in EnsureCollection([ctx EXCEPT !.col = d.col], d.dim) }
            : d \in DropCollection(ctx, cached) }

\* ------------------------------------------------------------------ Embedder
\* A batch call that sends the provider only the first text.
EmbedDocumentsFirstOnly(cached, caps, texts) ==
    IF Len(texts) = 0 THEN {Run("none", <<>>, <<>>, cached)}
    ELSE { LET c == Call("provider", "embed_documents", <<texts[1]>>, a) IN
           IF ~a.ok THEN Run("ProviderError", <<>>, <<c>>, cached)
           ELSE Run("none", [i \in 1..Len(texts) |-> Vec(texts[i], a.dim)], <<c>>, CacheDim(cached, a.dim))
           : a \in ProviderBatchAnswers(1) }

\* A batch call that keeps only the vectors of the cached dimension.
EmbedDocumentsDropMismatch(cached, caps, texts) ==
    IF Len(texts) = 0 THEN {Run("none", <<>>, <<>>, cached)}
    ELSE { LET c == Call("provider", "embed_documents", texts, a) IN
           IF ~a.ok THEN Run("ProviderError", <<>>, <<c>>, cached)
           ELSE IF cached # NoDim /\ a.dim # cached THEN Run("none", <<>>, <<c>>, cached)
           ELSE Run("none", [i \in 1..a.count |-> Vec(texts[i], a.dim)], <<c>>, CacheDim(cached, a.dim))
           : a \in ProviderBatchAnswers(Len(texts)) }

\* Embedder.embed_documents: nothing for no texts; NotImplementedError without
\* a batch method; else one provider call, whose first vector seeds the cache.
EmbedDocuments(cached, caps, texts) ==
    IF Len(texts) = 0 THEN {Run("none", <<>>, <<>>, cached)}
    ELSE IF ~caps.embed_documents THEN {Run("NotImplementedError", <<>>, <<>>, cached)}
    ELSE { LET c == Call("provider", "embed_documents", texts, a)
               vecs == [i \in 1..a.count |-> Vec(texts[i], a.dim)] IN
           IF ~a.ok THEN Run("ProviderError", <<>>, <<c>>, cached)
           ELSE Run("none", vecs, <<c>>,
                    IF Len(vecs) > 0 /\ Len(vecs[1]) > 0 THEN CacheDim(cached, Len(vecs[1])) ELSE cached)
           : a \in ProviderBatchAnswers(Len(texts)) }

\* Embedder.embed_query: the provider's embed_query, else embed_documents([text])
\* and its first vector ([] when it returned none); a non-empty vector seeds the cache.
EmbedQuery(cached, caps, text) ==
    IF caps.embed_query
    THEN { LET c == Call("provider", "embed_query", <<text>>, a) IN
           IF ~a.ok THEN Run("ProviderError", <<>>, <<c>>, cached)
           ELSE Run("none", Vec(text, a.dim), <<c>>, CacheDim(cached, a.dim))
           : a \in ProviderQueryAnswers }
    ELSE { IF r.err # "none" THEN r
           ELSE LET vec == IF Len(r.ret) > 0 THEN r.ret[1] ELSE <<>> IN
                Run("none", vec, r.calls, IF Len(vec) > 0 THEN CacheDim(r.dim, Len(vec)) ELSE r.dim)
           : r \in EmbedDocuments(cached, caps, <<text>>) }

\* One batch call of the provider through its method fn, and the caching that follows it.
BatchCall(fn, cached, texts) ==
    { LET c == Call("provider", fn, texts, a)
          vecs == [i \in 1..a.count |-> Vec(texts[i], a.dim)] IN
      IF ~a.ok THEN Run("ProviderError", <<>>, <<c>>, cached)
      ELSE Run("none", vecs, <<c>>,
               IF Len(vecs) > 0 /\ Len(vecs[1]) > 0 THEN CacheDim(cached, Len(vecs[1])) ELSE cached)
      : a \in ProviderBatchAnswers(Len(texts)) }

\* An async batch embedding that looks for the provider's methods first.
AEmbedDocumentsMethodsFirst(cached, caps, texts) ==
    IF caps.aembed_documents THEN BatchCall("aembed_documents", cached, texts)
    ELSE IF caps.embed_documents THEN BatchCall("embed_documents", cached, texts)
    ELSE {Run("NotImplementedError", <<>>, <<>>, cached)}

\* Embedder.aembed_documents: nothing for no texts; the provider's
\* aembed_documents, else its embed_documents in a worker thread, else
\* NotImplementedError.
AEmbedDocuments(cached, caps, texts) ==
    IF Len(texts) = 0 THEN {Run("none", <<>>, <<>>, cached)}
    ELSE IF caps.aembed_documents THEN BatchCall("aembed_documents", cached, texts)
    ELSE IF caps.embed_documents THEN BatchCall("embed_documents", cached, texts)
    ELSE {Run("NotImplementedError", <<>>, <<>>, cached)}

\* One single-text call of the provider through its method fn, and the caching that follows it.
QueryCall(fn, cached, text) ==
    { LET c == Call("provider", fn, <<text>>, a) IN
      IF ~a.ok THEN Run("ProviderError", <<>>, <<c>>, cached)
      ELSE Run("none", Vec(text, a.dim), <<c>>, CacheDim(cached, a.dim))
      : a \in ProviderQueryAnswers }

\* Embedder.aembed_query: the provider's aembed_query, else its embed_query in
\* a worker thread, else aembed_documents([text]) and its first vector.
AEmbedQuery(cached, caps, text) ==
    IF caps.aembed_query THEN QueryCall("aembed_query", cached, text)
    ELSE IF caps.embed_query THEN QueryCall("embed_query", cached, text)
    ELSE { IF r.err # "none" THEN r
           ELSE LET vec == IF Len(r.ret) > 0 THEN r.ret[1] ELSE <<>> IN
                Run("none", vec, r.calls, IF Len(vec) > 0 THEN CacheDim(r.dim, Len(vec)) ELSE r.dim)
           : r \in AEmbedDocuments(cached, caps, <<text>>) }

\* ----------------------------------------------------------------- Retriever
CeilDiv(a, b) == (a + b - 1) \div b

\* _create_batches: consecutive slices of batch_size items, the last one shorter.
CreateBatches(items, batch_size) ==
    [k \in 1..CeilDiv(Len(items), batch_size) |->
        SubSeq(items, (k - 1) * batch_size + 1, Min(k * batch_size, Len(items)))]

\* An identifier taken for a UUID without being parsed.
UUIDUnparsed(cid_str) == Some(cid_str)

\* uuid.UUID(cid_str): the UUID a string of 32 hex digits denotes, with or
\* without hyphens; ValueError (None here) for any other string.
UUID(cid_str) ==
    IF cid_str \in {CanonicalId, HexId} THEN Some(CanonicalId) ELSE None

\* One SearchItem per hit: id, text, distance and metadata (None unless a dict).
SearchItem(hit) ==
    [id |-> UUID(hit.id)[1], text |-> hit.text, distance |-> Some(hit.distance),
     metadata |-> hit.metadata]

\* pid = UUID(cid_str) raises for some hit of the results.
BadId(results) ==
    \E i \in 1..Len(results) : \E j \in 1..Len(results[i]) : UUID(results[i][j].id) = None

\* Retriever._batch_results_to_items, when no hit's identifier makes it raise.
BatchResultsToItems(results) ==
    [i \in 1..Len(results) |-> [j \in 1..Len(results[i]) |-> SearchItem(results[i][j])]]

\* qvs = [self.embedder.embed_query(q) for q in queries]
RECURSIVE EmbedEach(_, _, _, _, _, _)
EmbedEach(cached, caps, queries, i, qvs, cs) ==
    IF i > Len(queries) THEN {Run("none", qvs, cs, cached)}
    ELSE UNION { IF r.err # "none" THEN {Run(r.err, <<>>, cs \o r.calls, r.dim)}
                 ELSE EmbedEach(r.dim, caps, queries, i + 1, Append(qvs, r.ret), cs \o r.calls)
                 : r \in EmbedQuery(cached, caps, queries[i]) }

\* for query_batch, dense_batch in zip(query_batches, dense_batches): search, convert, extend.
RECURSIVE SearchBatches(_, _, _, _, _, _, _, _, _)
SearchBatches(ctx, query_batches, dense_batches, k, limit, filter_expression, all_results, cs, dim) ==
    IF k > Min(Len(query_batches), Len(dense_batches)) THEN {Run("none", all_results, cs, dim)}
    ELSE UNION { IF r.err # "none" THEN {Run(r.err, <<>>, cs \o r.calls, r.dim)}
                 ELSE IF BadId(r.ret) THEN {Run("ValueError", <<>>, cs \o r.calls, r.dim)}
                 ELSE SearchBatches(ctx, query_batches, dense_batches, k + 1, limit, filter_expression,
                                    all_results \o BatchResultsToItems(r.ret), cs \o r.calls, r.dim)
                 : r \in HybridSearch(ctx, dim, query_batches[k], dense_batches[k], limit,
                                      None, filter_expression) }

\* Retriever.retrieve with a list of queries.
RetrieveList(ctx, cached, queries, limit, queries_as_documents, filter_expression) ==
    UNION { IF e.err # "none" THEN {Run(e.err, <<>>, e.calls, e.dim)}
            ELSE SearchBatches(ctx, CreateBatches(queries, DEFAULT_BATCH_SIZE),
                               CreateBatches(e.ret, DEFAULT_BATCH_SIZE), 1, limit, filter_expression,
                               <<>>, e.calls, e.dim)
            : e \in IF queries_as_documents THEN EmbedDocuments(cached, ctx.caps, queries)
                    ELSE EmbedEach(cached, ctx.caps, queries, 1, <<>>, <<>>) }

\* Retriever.retrieve with one query string: the first list of the batch, or [].
RetrieveOne(ctx, cached, query, limit, filter_expression) ==
    UNION { IF e.err # "none" THEN {Run(e.err, <<>>, e.calls, e.dim)}
            ELSE { IF r.err # "none" THEN Run(r.err, <<>>, e.calls \o r.calls, r.dim)
                   ELSE IF BadId(r.ret) THEN Run("ValueError", <<>>, e.calls \o r.calls, r.dim)
                   ELSE LET batch_items == BatchResultsToItems(r.ret) IN
                        Run("none", IF Len(batch_items) > 0 THEN batch_items[1] ELSE <<>>,
                            e.calls \o r.calls, r.dim)
                   : r \in HybridSearch(ctx, e.dim, <<query>>, <<e.ret>>, limit, None, filter_expression) }
            : e \in EmbedQuery(cached, ctx.caps, query) }

\* ------------------------------------------------------------------ inputs
Ids(n) == [i \in 1..n |-> "id" \o ToString(i)]
Texts(n) == [i \in 1..n |-> "q" \o ToString(i)]
Vectors(dims) == [i \in 1..Len(dims) |-> Vec("q" \o ToString(i), dims[i])]
Uniform(n, x) == [i \in 1..n |-> x]
MetaValues == {None, Some({<<"k", 1>>})}
\* Values of a configuration key: absent (0), not positive, or a dimension.
CfgDims == {0, -1} \cup Dims
\* The methods the provider object has.
SyncCaps == [embed_documents : BOOLEAN, embed_query : BOOLEAN,
             aembed_documents : {FALSE}, aembed_query : {FALSE}]
AsyncCaps ==
    { [embed_documents |-> TRUE, embed_query |-> TRUE, aembed_documents |-> TRUE, aembed_query |-> TRUE],
      [embed_documents |-> FALSE, embed_query |-> FALSE, aembed_documents |-> TRUE, aembed_query |-> FALSE],
      [embed_documents |-> FALSE, embed_query |-> FALSE, aembed_documents |-> FALSE, aembed_query |-> TRUE] }
Caps == SyncCaps \cup AsyncCaps
\* An Embedder as constructed: its configuration (the keys "dim" and
\* "dimensions") and its provider.  Every value of "dim" with every
\* synchronous provider; "dimensions" and the asynchronous providers with one
\* representative of the rest.
EmbedderSetups ==
    { [cfg |-> [dim |-> d, dimensions |-> 0], caps |-> c] : d \in CfgDims, c \in SyncCaps }
    \cup { [cfg |-> [dim |-> 0, dimensions |-> d],
            caps |-> [embed_documents |-> TRUE, embed_query |-> TRUE,
                      aembed_documents |-> FALSE, aembed_query |-> FALSE]] : d \in {-1, MaxDim} }
    \cup { [cfg |-> [dim |-> 0, dimensions |-> 0], caps |-> c] : c \in AsyncCaps }
Collections == {Absent} \cup [exists : {TRUE}, dim : Dims, has_metadata : BOOLEAN]
Limits == {-1, 0, 5, 51, 52, 1638, 1639, 2000}
WeightArgs == {None, Some(<<>>), Some(<<3>>), Some(<<7, 3>>), Some(<<-2, 3>>), Some(<<1, 2, 3>>)}
StoreWeights == {None, Some(<<6, 4>>)}
Filters == {None, Some("f")}

\* upsert arguments: every combination of vector dimensions and metadata entries
\* when the three lists have one length; one representative of each shape when
\* they do not (the code then reads nothing but the lengths).
UpsertArgs ==
    { [ids |-> Ids(Len(dims)), texts |-> Texts(Len(dims)), dense_vectors |-> Vectors(dims),
       metadatas |-> metadatas] :
        dims \in SeqsUpTo(Dims, MaxRows),
        metadatas \in {None} \cup {Some(m) : m \in SeqsUpTo(MetaValues, MaxRows)} }
    \cup
    { [ids |-> Ids(n), texts |-> Texts(m), dense_vectors |-> Vectors(Uniform(l, d)),
       metadatas |-> IF given THEN Some(Uniform(n, None)) ELSE None] :
        n \in 0..MaxRows, m \in 0..MaxRows, l \in 0..MaxRows, d \in Dims, given \in BOOLEAN }

\* hybrid_search arguments, in the same way.
HybridSearchArgs ==
    { [query_texts |-> Texts(Len(dims)), query_denses |-> Vectors(dims), limit |-> 5,
       ranker_weights |-> w, filter_expression |-> f] :
        dims \in SeqsUpTo(Dims, MaxRows), w \in WeightArgs, f \in Filters }
    \cup
    { [query_texts |-> Texts(Len(dims)), query_denses |-> Vectors(dims), limit |-> limit,
       ranker_weights |-> None, filter_expression |-> None] :
        dims \in SeqsUpTo(Dims, MaxRows), limit \in Limits }
    \cup
    { [query_texts |-> Texts(n), query_denses |-> Vectors(Uniform(l, d)), limit |-> 5,
       ranker_weights |-> w, filter_expression |-> None] :
        n \in 0..MaxRows, l \in 0..MaxRows, d \in Dims, w \in {None, Some(<<1, 2, 3>>)} }

\* retrieve arguments: a list of queries, one query string, or another type.
RetrieveArgs ==
    { [kind |-> "list", queries |-> Texts(n), limit |-> 10, queries_as_documents |-> TRUE,
       filter_expression |-> f] : n \in 0..MaxQueries, f \in Filters }
    \cup { [kind |-> "list", queries |-> Texts(n), limit |-> 10, queries_as_documents |-> FALSE,
            filter_expression |-> f] : n \in 0..MaxRows, f \in Filters }
    \cup { [kind |-> "str", queries |-> Texts(1), limit |-> 10, queries_as_documents |-> TRUE,
            filter_expression |-> f] : f \in Filters }
    \cup { [kind |-> "other", queries |-> <<>>, limit |-> 10, queries_as_documents |-> TRUE,
            filter_expression |-> None] }

NoOp == [name |-> "none", args |-> <<>>, err |-> "none", ret |-> <<>>]
\* No event loop is running.
NoLoop == <<>>

\* The part of the state an operation reads besides the cached dimension.
Ctx == [col |-> collection, cfg_dim |-> CfgDim(emb_cfg), caps |-> emb_caps, ranker_weights |-> store.ranker_weights]

\* Retriever.retrieve: the branch is taken on the argument's type.
Retrieve(ctx, cached, a) ==
    IF a.kind = "list"
    THEN RetrieveList(ctx, cached, a.queries, a.limit, a.queries_as_documents, a.filter_expression)
    ELSE IF a.kind = "str"
    THEN RetrieveOne(ctx, cached, a.queries[1], a.limit, a.filter_expression)
    ELSE {Run("ValueError", <<>>, <<>>, cached)}

\* ------------------------------------------------------------------- state
Init ==
    /\ collection \in Collections
    /\ \E e \in EmbedderSetups : emb_cfg = e.cfg /\ emb_caps = e.caps
    /\ emb_dim = EmbedderInitDim(emb_cfg.dim)
    /\ store = [constructed |-> FALSE, ranker_weights |-> None]
    /\ pc = "idle"
    /\ op = NoOp
    /\ calls = <<>>
    /\ loop = NoLoop
    /\ inst = <<>>

\* The caller takes the result of the finished operation.
Return ==
    /\ pc = "done"
    /\ pc' = "idle"
    /\ op' = NoOp
    /\ calls' = <<>>
    /\ UNCHANGED <<collection, emb_cfg, emb_caps, emb_dim, store, loop, inst>>

\* DataVectorStore.__init__: keeps ranker_weights, then manager.ensure_collection().
StoreInit ==
    /\ pc = "idle"
    /\ ~store.constructed
    /\ \E w \in StoreWeights, r \in EnsureCollection(Ctx, emb_dim) :
         /\ store' = [constructed |-> r.err = "none", ranker_weights |-> w]
         /\ collection' = r.col
         /\ emb_dim' = r.dim
         /\ calls' = r.calls
         /\ op' = [name |-> "__init__", args |-> [ranker_weights |-> w, had_collection |-> collection.exists],
                   err |-> r.err, ret |-> <<>>]
    /\ pc' = "done"
    /\ UNCHANGED <<emb_cfg, emb_caps, loop, inst>>

\* Embedder.embed_documents and Embedder.aembed_documents
EmbedDocumentsCall ==
    /\ pc = "idle"
    /\ \E n \in 0..MaxRows : \E r \in EmbedDocuments(emb_dim, emb_caps, Texts(n)) :
         /\ emb_dim' = r.dim
         /\ calls' = r.calls
         /\ op' = [name |-> "embed_documents", args |-> [texts |-> Texts(n), cached |-> emb_dim],
                   err |-> r.err, ret |-> r.ret]
    /\ pc' = "done"
    /\ UNCHANGED <<collection, emb_cfg, emb_caps, store, loop, inst>>

AEmbedDocumentsCall ==
    /\ pc = "idle"
    /\ \E n \in 0..MaxRows : \E r \in AEmbedDocuments(emb_dim, emb_caps, Texts(n)) :
         /\ emb_dim' = r.dim
         /\ calls' = r.calls
         /\ op' = [name |-> "aembed_documents", args |-> [texts |-> Texts(n), cached |-> emb_dim],
                   err |-> r.err, ret |-> r.ret]
    /\ pc' = "done"
    /\ UNCHANGED <<collection, emb_cfg, emb_caps, store, loop, inst>>

\* Embedder.embed_query and Embedder.aembed_query
EmbedQueryCall ==
    /\ pc = "idle"
    /\ \E r \in EmbedQuery(emb_dim, emb_caps, "q1") :
         /\ emb_dim' = r.dim
         /\ calls' = r.calls
         /\ op' = [name |-> "embed_query", args |-> [texts |-> <<"q1">>, cached |-> emb_dim],
                   err |-> r.err, ret |-> r.ret]
    /\ pc' = "done"
    /\ UNCHANGED <<collection, emb_cfg, emb_caps, store, loop, inst>>

AEmbedQueryCall ==
    /\ pc = "idle"
    /\ \E r \in AEmbedQuery(emb_dim, emb_caps, "q1") :
         /\ emb_dim' = r.dim
         /\ calls' = r.calls
         /\ op' = [name |-> "aembed_query", args |-> [texts |-> <<"q1">>, cached |-> emb_dim],
                   err |-> r.err, ret |-> r.ret]
    /\ pc' = "done"
    /\ UNCHANGED <<collection, emb_cfg, emb_caps, store, loop, inst>>

\* A read of the property Embedder.dim.
DimCall ==
    /\ pc = "idle"
    /\ \E r \in EmbedderDim(emb_dim, CfgDim(emb_cfg), emb_caps) :
         /\ emb_dim' = r.dim
         /\ calls' = r.calls
         /\ op' = [name |-> "dim", args |-> [cached |-> emb_dim], err |-> r.err, ret |-> r.ret]
    /\ pc' = "done"
    /\ UNCHANGED <<collection, emb_cfg, emb_caps, store, loop, inst>>

\* CollectionManager.ensure_collection, called on a manager of the client and embedder.
EnsureCall ==
    /\ pc = "idle"
    /\ \E r \in EnsureCollection(Ctx, emb_dim) :
         /\ collection' = r.col
         /\ emb_dim' = r.dim
         /\ calls' = r.calls
         /\ op' = [name |-> "ensure_collection", args |-> [before |-> collection], err |-> r.err, ret |-> <<>>]
    /\ pc' = "done"
    /\ UNCHANGED <<emb_cfg, emb_caps, store, loop, inst>>

\* CollectionManager.drop_collection
DropCall ==
    /\ pc = "idle"
    /\ \E r \in DropCollection(Ctx, emb_dim) :
         /\ collection' = r.col
         /\ emb_dim' = r.dim
         /\ calls' = r.calls
         /\ op' = [name |-> "drop_collection", args |-> [before |-> collection], err |-> r.err, ret |-> <<>>]
    /\ pc' = "done"
    /\ UNCHANGED <<emb_cfg, emb_caps, store, loop, inst>>

\* DataVectorStore.reset: manager.reset_collection().
ResetCall ==
    /\ pc = "idle"
    /\ store.constructed
    /\ \E r \in ResetCollection(Ctx, emb_dim) :
         /\ collection' = r.col
         /\ emb_dim' = r.dim
         /\ calls' = r.calls
         /\ op' = [name |-> "reset", args |-> [before |-> collection], err |-> r.err, ret |-> <<>>]
    /\ pc' = "done"
    /\ UNCHANGED <<emb_cfg, emb_caps, store, loop, inst>>

UpsertCall ==
    /\ pc = "idle"
    /\ store.constructed
    /\ \E a \in UpsertArgs :
         \E r \in Upsert(Ctx, emb_dim, a.ids, a.texts, a.dense_vectors, a.metadatas) :
            /\ op' = [name |-> "upsert", args |-> a, err |-> r.err, ret |-> <<>>]
            /\ calls' = r.calls
            /\ emb_dim' = r.dim
    /\ pc' = "done"
    /\ UNCHANGED <<collection, emb_cfg, emb_caps, store, loop, inst>>

HybridSearchCall ==
    /\ pc = "idle"
    /\ store.constructed
    /\ \E a \in HybridSearchArgs :
         \E r \in HybridSearch(Ctx, emb_dim, a.query_texts, a.query_denses, a.limit,
                               a.ranker_weights, a.filter_expression) :
            /\ op' = [name |-> "hybrid_search", args |-> a, err |-> r.err, ret |-> r.ret]
            /\ calls' = r.calls
            /\ emb_dim' = r.dim
    /\ pc' = "done"
    /\ UNCHANGED <<collection, emb_cfg, emb_caps, store, loop, inst>>

RetrieveCall ==
    /\ pc = "idle"
    /\ store.constructed
    /\ \E a \in RetrieveArgs :
         \E r \in Retrieve(Ctx, emb_dim, a) :
            /\ op' = [name |-> "retrieve", args |-> a, err |-> r.err, ret |-> r.ret]
            /\ calls' = r.calls
            /\ emb_dim' = r.dim
    /\ pc' = "done"
    /\ UNCHANGED <<collection, emb_cfg, emb_caps, store, loop, inst>>

Next ==
    \/ StoreInit
    \/ EmbedDocumentsCall
    \/ AEmbedDocumentsCall
    \/ EmbedQueryCall
    \/ AEmbedQueryCall
    \/ DimCall
    \/ EnsureCall
    \/ DropCall
    \/ ResetCall
    \/ UpsertCall
    \/ HybridSearchCall
    \/ RetrieveCall
    \/ Return

Spec == Init /\ [][Next]_vars

\* ------------------------------------------------ the asynchronous paths
\* How an external call of an asynchronous path is made: "coroutine" is an
\* awaited coroutine of the provider, "thread" is asyncio.to_thread awaited,
\* "loop" is a plain call, which runs on the event loop until it returns.
\* The first n calls of a path are those of aembed_documents / aembed_query:
\* the provider's async method is awaited, its sync method goes to a thread.
Where(cs, n) ==
    [k \in 1..Len(cs) |->
        IF k > n THEN "loop"
        ELSE IF cs[k].fn \in {"aembed_documents", "aembed_query"} THEN "coroutine"
        ELSE "thread"]

\* A run of an asynchronous operation, with the way each of its calls is made.
Plan(r, n) ==
    [err |-> r.err, ret |-> r.ret, calls |-> r.calls, dim |-> r.dim, where |-> Where(r.calls, n)]

\* qvs = [await self.embedder.aembed_query(q) for q in query_or_queries]
RECURSIVE AEmbedEach(_, _, _, _, _, _)
AEmbedEach(cached, caps, queries, i, qvs, cs) ==
    IF i > Len(queries) THEN {Run("none", qvs, cs, cached)}
    ELSE UNION { IF r.err # "none" THEN {Run(r.err, <<>>, cs \o r.calls, r.dim)}
                 ELSE AEmbedEach(r.dim, caps, queries, i + 1, Append(qvs, r.ret), cs \o r.calls)
                 : r \in AEmbedQuery(cached, caps, queries[i]) }

\* Retriever.aretrieve with a list of queries: the embeddings are awaited,
\* self.store.hybrid_search is called as in retrieve.
ARetrieveList(ctx, cached, queries, limit, queries_as_documents, filter_expression) ==
    UNION { IF e.err # "none" THEN {Plan(e, Len(e.calls))}
            ELSE { Plan(r, Len(e.calls))
                   : r \in SearchBatches(ctx, CreateBatches(queries, DEFAULT_BATCH_SIZE),
                                         CreateBatches(e.ret, DEFAULT_BATCH_SIZE), 1, limit,
                                         filter_expression, <<>>, e.calls, e.dim) }
            : e \in IF queries_as_documents THEN AEmbedDocuments(cached, ctx.caps, queries)
                    ELSE AEmbedEach(cached, ctx.caps, queries, 1, <<>>, <<>>) }

\* Retriever.aretrieve with one query string.
ARetrieveOne(ctx, cached, query, limit, filter_expression) ==
    UNION { IF e.err # "none" THEN {Plan(e, Len(e.calls))}
            ELSE { IF r.err # "none" THEN Plan(Run(r.err, <<>>, e.calls \o r.calls, r.dim), Len(e.calls))
                   ELSE IF BadId(r.ret)
                   THEN Plan(Run("ValueError", <<>>, e.calls \o r.calls, r.dim), Len(e.calls))
                   ELSE LET batch_items == BatchResultsToItems(r.ret) IN
                        Plan(Run("none", IF Len(batch_items) > 0 THEN batch_items[1] ELSE <<>>,
                                 e.calls \o r.calls, r.dim), Len(e.calls))
                   : r \in HybridSearch(ctx, e.dim, <<query>>, <<e.ret>>, limit, None, filter_expression) }
            : e \in AEmbedQuery(cached, ctx.caps, query) }

\* Retriever.aretrieve: the branch is taken on the argument's type.
ARetrieve(ctx, cached, a) ==
    IF a.kind = "list"
    THEN ARetrieveList(ctx, cached, a.queries, a.limit, a.queries_as_documents, a.filter_expression)
    ELSE IF a.kind = "str"
    THEN ARetrieveOne(ctx, cached, a.queries[1], a.limit, a.filter_expression)
    ELSE {Plan(Run("ValueError", <<>>, <<>>, cached), 0)}

\* The asynchronous operations a task can be started with, and their runs.
AsyncOps ==
    { [name |-> "aembed_documents", args |-> [kind |-> "list", queries |-> Texts(n)]] : n \in 0..MaxRows }
    \cup { [name |-> "aembed_query", args |-> [kind |-> "str", queries |-> Texts(1)]] }
    \cup { [name |-> "aretrieve",
            args |-> [kind |-> "list", queries |-> Texts(n), limit |-> 10,
                      queries_as_documents |-> d, filter_expression |-> None]]
           : n \in 0..MaxRows, d \in BOOLEAN }
    \cup { [name |-> "aretrieve",
            args |-> [kind |-> k, queries |-> Texts(1), limit |-> 10,
                      queries_as_documents |-> TRUE, filter_expression |-> None]]
           : k \in {"str", "other"} }

AsyncRuns(ctx, cached, o) ==
    IF o.name = "aembed_documents"
    THEN { Plan(r, Len(r.calls)) : r \in AEmbedDocuments(cached, ctx.caps, o.args.queries) }
    ELSE IF o.name = "aembed_query"
    THEN { Plan(r, Len(r.calls)) : r \in AEmbedQuery(cached, ctx.caps, o.args.queries[1]) }
    ELSE ARetrieve(ctx, cached, o.args)

\* The steps another task of the same loop is followed for.
MaxTicks == 2

\* The embedders of the asynchronous paths: a provider with async methods,
\* one with sync methods only, one with a batch method only.
AsyncSetups ==
    { e \in EmbedderSetups : e.cfg = [dim |-> 0, dimensions |-> 0]
                             /\ (e.caps.aembed_documents \/ e.caps.embed_documents) }

AsyncInit ==
    /\ collection \in {Created(1), [exists |-> TRUE, dim |-> 1, has_metadata |-> FALSE]}
    /\ \E e \in AsyncSetups : emb_cfg = e.cfg /\ emb_caps = e.caps
    /\ emb_dim \in {NoDim, 1}
    /\ store = [constructed |-> TRUE, ranker_weights |-> None]
    /\ pc = "idle"
    /\ op = NoOp
    /\ calls = <<>>
    /\ loop = NoLoop
    /\ inst = <<>>

\* A task is created for a coroutine of the Embedder or the Retriever; the
\* answers the environment will give decide the run it follows.
TaskStart ==
    /\ pc = "idle"
    /\ \E o \in AsyncOps : \E r \in AsyncRuns(Ctx, emb_dim, o) :
         /\ op' = [name |-> o.name, args |-> o.args, err |-> "none", ret |-> <<>>]
         /\ loop' = [plan |-> r, at |-> 0, inflight |-> FALSE, ticks |-> 0]
    /\ pc' = "running"
    /\ calls' = <<>>
    /\ UNCHANGED <<collection, emb_cfg, emb_caps, emb_dim, store, inst>>

\* The task makes its next external call.
CallBegin ==
    /\ pc = "running" /\ ~loop.inflight /\ loop.at < Len(loop.plan.calls)
    /\ loop' = [loop EXCEPT !.at = loop.at + 1, !.inflight = TRUE]
    /\ UNCHANGED <<collection, emb_cfg, emb_caps, emb_dim, store, pc, op, calls, inst>>

\* The call in flight is answered.
CallEnd ==
    /\ pc = "running" /\ loop.inflight
    /\ loop' = [loop EXCEPT !.inflight = FALSE]
    /\ calls' = Append(calls, loop.plan.calls[loop.at])
    /\ UNCHANGED <<collection, emb_cfg, emb_caps, emb_dim, store, pc, op, inst>>

\* The loop runs other tasks only while the current one is suspended at an
\* await: a call made on the loop itself holds the loop until it returns.
Suspended == loop.inflight /\ loop.plan.where[loop.at] # "loop"

\* Another task of the loop makes a step.
OtherTaskStep ==
    /\ pc = "running" /\ Suspended /\ loop.ticks < MaxTicks
    /\ loop' = [loop EXCEPT !.ticks = loop.ticks + 1]
    /\ UNCHANGED <<collection, emb_cfg, emb_caps, emb_dim, store, pc, op, calls, inst>>

\* The coroutine returns or raises.
TaskEnd ==
    /\ pc = "running" /\ ~loop.inflight /\ loop.at = Len(loop.plan.calls)
    /\ op' = [op EXCEPT !.err = loop.plan.err, !.ret = loop.plan.ret]
    /\ emb_dim' = loop.plan.dim
    /\ pc' = "done"
    /\ UNCHANGED <<collection, emb_cfg, emb_caps, store, calls, loop, inst>>

\* The caller takes the result of the finished task.
TaskReturn ==
    /\ pc = "done"
    /\ pc' = "idle"
    /\ op' = NoOp
    /\ calls' = <<>>
    /\ loop' = NoLoop
    /\ UNCHANGED <<collection, emb_cfg, emb_caps, emb_dim, store, inst>>

AsyncNext ==
    \/ TaskStart
    \/ CallBegin
    \/ CallEnd
    \/ OtherTaskStep
    \/ TaskEnd
    \/ TaskReturn

AsyncSpec == AsyncInit /\ [][AsyncNext]_vars

\* ------------------------------------------------------- get_milvus_client
\* The retries a caller asks for go up to MaxRetries.
MaxRetries == 3

\* x or os.environ.get(key, default): the argument unless None or empty,
\* else the environment's value, else the default.
OrEnv(x, env_value, default) ==
    IF x # None /\ x[1] # "" THEN x[1]
    ELSE IF env_value # None THEN env_value[1]
    ELSE default

\* for i in range(max(1, retries)): try: client.list_collections(); break
\* except Exception: if i == retries - 1: raise; time.sleep(backoff_sec)
\* and, after the loop, return client.  i counts from 0.
RECURSIVE ReadyLoop(_, _, _, _)
ReadyLoop(i, retries, backoff_sec, cs) ==
    IF i >= Max(1, retries) THEN {[err |-> "none", ret |-> Some("client"), calls |-> cs]}
    ELSE UNION { LET c == Call("index", "list_collections", <<>>, a) IN
                 IF a = "none" THEN {[err |-> "none", ret |-> Some("client"), calls |-> Append(cs, c)]}
                 ELSE IF i = retries - 1 THEN {[err |-> a, ret |-> None, calls |-> Append(cs, c)]}
                 ELSE ReadyLoop(i + 1, retries, backoff_sec,
                                cs \o <<c, Call("time", "sleep", backoff_sec, "none")>>)
                 : a \in {"none", "ProviderError"} }

\* get_milvus_client: the client is built from the resolved uri and token
\* (the constructor can raise), then checked when wait_ready is set.
GetMilvusClient(a, env) ==
    UNION { LET c == Call("index", "MilvusClient",
                          [uri |-> OrEnv(a.uri, env.MILVUS_URI, "http://localhost:19530"),
                           token |-> OrEnv(a.token, env.MILVUS_TOKEN, "root:Milvus")], made) IN
            IF made # "none" THEN {[err |-> made, ret |-> None, calls |-> <<c>>]}
            ELSE IF ~a.wait_ready THEN {[err |-> "none", ret |-> Some("client"), calls |-> <<c>>]}
            ELSE ReadyLoop(0, a.retries, a.backoff_sec, <<c>>)
            : made \in {"none", "ProviderError"} }

ClientArgs ==
    [uri : {None, Some(""), Some("http://milvus:19530")}, token : {None, Some("user:pw")},
     wait_ready : BOOLEAN, retries : -1..MaxRetries, backoff_sec : {0, 10}]

Environments == [MILVUS_URI : {None, Some("http://env:19530")}, MILVUS_TOKEN : {None}]

\* ------------------------------------------------------------ SearchService
\* A Python str is the sequence of its characters; the fixed parts of a
\* format string are one element each.  Text(s) is the str as one value.
Whitespace == {" ", "\t"}
MaxTypes == 2

RECURSIVE LStrip(_)
LStrip(s) == IF s # <<>> /\ Head(s) \in Whitespace THEN LStrip(Tail(s)) ELSE s

RECURSIVE RStrip(_)
RStrip(s) ==
    IF s # <<>> /\ s[Len(s)] \in Whitespace THEN RStrip(SubSeq(s, 1, Len(s) - 1)) ELSE s

\* str.strip()
Strip(s) == RStrip(LStrip(s))

RECURSIVE Text(_)
Text(s) == IF s = <<>> THEN "" ELSE Head(s) \o Text(Tail(s))

\* ", ".join(parts)
RECURSIVE JoinComma(_)
JoinComma(parts) ==
    IF parts = <<>> THEN <<>>
    ELSE IF Len(parts) = 1 THEN parts[1]
    ELSE parts[1] \o <<",", " ">> \o JoinComma(Tail(parts))

FilterOpenType == "(metadata[\"type\"] in ["
FilterOpenObjectType == "]) or (metadata[\"object_type\"] in ["
FilterClose == "])"

\* clean_types = [t.strip() for t in types if t and t.strip()]
CleanTypes(types) ==
    LET kept == SelectSeq(types, LAMBDA t : t # <<>> /\ Strip(t) # <<>>) IN
    [i \in 1..Len(kept) |-> Strip(kept[i])]

\* SearchService._build_filter_expression: None without types or without a
\* non-blank type; else both membership tests over the quoted clean types.
BuildFilterExpression(types) ==
    IF types = None \/ types[1] = <<>> THEN None
    ELSE LET clean_types == CleanTypes(types[1])
             quoted == JoinComma([i \in 1..Len(clean_types) |-> <<"\"">> \o clean_types[i] \o <<"\"">>]) IN
         IF clean_types = <<>> THEN None
         ELSE Some(<<FilterOpenType>> \o quoted \o <<FilterOpenObjectType>> \o quoted \o <<FilterClose>>)

\* SearchService._to_result: {"id": str(item.id), "metadata": item.metadata or {}}.
\* str() of a UUID is its hyphenated form, the form a parsed UUID has here.
ToResult(item) ==
    [id |-> item.id, metadata |-> IF item.metadata = None THEN {} ELSE item.metadata[1]]

\* A search that goes to the retriever whatever the query.
SearchByQueryUnguarded(ctx, cached, query, top_k, types) ==
    { IF r.err # "none" THEN r
      ELSE Run("none", [i \in 1..Len(r.ret) |-> ToResult(r.ret[i])], r.calls, r.dim)
      : r \in RetrieveOne(ctx, cached, Text(Strip(query)), top_k, BuildFilterExpression(types)) }

\* SearchService.search_by_query: [] for a blank query; else the results of
\* retriever.retrieve(query.strip(), limit=top_k, filter_expression=...).
SearchByQuery(ctx, cached, query, top_k, types) ==
    IF query = <<>> \/ Strip(query) = <<>> THEN {Run("none", <<>>, <<>>, cached)}
    ELSE { IF r.err # "none" THEN r
           ELSE Run("none", [i \in 1..Len(r.ret) |-> ToResult(r.ret[i])], r.calls, r.dim)
           : r \in RetrieveOne(ctx, cached, Text(Strip(query)), top_k, BuildFilterExpression(types)) }

\* The type strings a caller passes: names, blanks, a padded name, and names
\* with a double quote in them.
TypeStrings ==
    { <<"a">>, <<"b">>, <<>>, <<" ">>, <<" ", "a", "\t">>, <<"a", "\"">>,
      <<"a", "\"", ",", " ", "\"", "b">> }
TypesArgs == {None} \cup {Some(ts) : ts \in SeqsUpTo(TypeStrings, MaxTypes)}
Queries == SeqsUpTo(Whitespace \cup {"q"}, 2)
SearchByQueryArgs ==
    [query : Queries, top_k : {5}, types : {None, Some(<<>>)}]
    \cup [query : {<<>>, <<" ", "\t">>, <<" ", "q">>}, top_k : {0, 5},
          types : {Some(<<<<"a">>>>), Some(<<<<" ">>, <<"b">>>>)}]

\* SearchService.search_similar_by_id: the body is `pass`.
SearchSimilarById(cached, source_id, top_k, types) == {Run("none", None, <<>>, cached)}

\* ------------------------------------------------------- the HTTP application
\* A response: the status code and the body (a list of items, or nothing).
Response(status, body, cs, dim) == Run("none", [status |-> status, body |-> body], cs, dim)

\* ObjectType values (two of the five), as the characters of their names.
Dataset == <<"d", "a", "t", "a", "s", "e", "t">>
Resource == <<"r", "e", "s", "o", "u", "r", "c", "e">>
ObjectType == {Dataset, Resource}

\* SearchOptions.top_k: Field(10, ge=1, le=100); options defaults to SearchOptions().
TopK(options) == IF options = None THEN 10 ELSE options[1]

\* The body is a QuerySearchRequest: query of min_length 1, types of ObjectType, top_k in 1..100.
ValidQueryRequest(body) ==
    /\ Len(body.query) >= 1
    /\ TopK(body.options) >= 1 /\ TopK(body.options) <= 100
    /\ (body.filters # None /\ body.filters[1] # None) => Range(body.filters[1][1]) \subseteq ObjectType

\* types = [t.value for t in request.filters.types] if request.filters and request.filters.types
RequestTypes(filters) ==
    IF filters # None /\ filters[1] # None /\ filters[1][1] # <<>> THEN Some(filters[1][1]) ELSE None

\* The route POST "" of the search router: 422 for an invalid body; else
\* search_by_query, 500 when it raises, and one {id, metadata} per result.
RouteSearchByQuery(ctx, cached, body) ==
    IF ~ValidQueryRequest(body) THEN {Response(422, <<>>, <<>>, cached)}
    ELSE { IF r.err # "none" THEN Response(500, <<>>, r.calls, r.dim)
           ELSE Response(200, [i \in 1..Len(r.ret) |-> [id |-> r.ret[i].id, metadata |-> r.ret[i].metadata]],
                         r.calls, r.dim)
           : r \in SearchByQuery(ctx, cached, body.query, TopK(body.options), RequestTypes(body.filters)) }

\* The route POST "/similar" of the search router: raise HTTPException(501).
RouteSearchSimilar(cached, body) ==
    IF Len(body.query) < 1 \/ ~(TopK(body.options) >= 1 /\ TopK(body.options) <= 100)
    THEN {Response(422, <<>>, <<>>, cached)}
    ELSE {Response(501, <<>>, <<>>, cached)}

\* The prefixes of the routers the application includes: app.include_router(vectorstore_router).
IncludedRouters == {"/vectorstore"}

\* The application: /health, and the routes of the included routers; 405 for
\* a known path with another method, 404 for a path no route has.
Serve(ctx, cached, req) ==
    IF req.path = "/health"
    THEN {Response(IF req.method = "GET" THEN 200 ELSE 405, <<>>, <<>>, cached)}
    ELSE IF "/search" \in IncludedRouters /\ req.path \in {"/search", "/search/similar"}
    THEN IF req.method # "POST" THEN {Response(405, <<>>, <<>>, cached)}
         ELSE IF req.path = "/search" THEN RouteSearchByQuery(ctx, cached, req.body)
         ELSE RouteSearchSimilar(cached, req.body)
    ELSE {Response(404, <<>>, <<>>, cached)}

\* Request bodies: for /search/similar the field query stands for source_id.
Bodies ==
    [query : {<<>>, <<" ">>, <<"q">>},
     filters : {None, Some(None), Some(Some(<<>>)), Some(Some(<<Dataset, Resource>>)), Some(Some(<<<<"x">>>>))},
     options : {None, Some(0), Some(5), Some(101)}]
Requests ==
    [method : {"POST"}, path : {"/search", "/search/similar"}, body : Bodies]
    \cup [method : {"GET", "POST"}, path : {"/health"}, body : {[query |-> <<>>, filters |-> None, options |-> None]}]
    \cup [method : {"GET"}, path : {"/search"}, body : {[query |-> <<"q">>, filters |-> None, options |-> None]}]

\* ---------------------------------------------------------- SearchItem.snippet
\* The longest text a snippet is taken of.
MaxText == 11

\* s[:stop]: the first stop characters; for a negative stop all but the last -stop.
SliceTo(s, stop) ==
    IF stop >= 0 THEN SubSeq(s, 1, Min(stop, Len(s)))
    ELSE SubSeq(s, 1, Max(0, Len(s) + stop))

\* s[-n:] for n >= 1: the last n characters.
SliceLast(s, n) == SubSeq(s, Max(1, Len(s) - n + 1), Len(s))

Ellipsis == <<".", ".", ".">>

\* A snippet whose head takes the larger half of the budget.
SnippetHeadHeavy(text, max_len) ==
    IF Len(text) <= max_len THEN text
    ELSE IF max_len <= 3 THEN SliceTo(text, max_len)
    ELSE LET budget == max_len - 3
             tail_len == budget \div 2
             head_len == budget - tail_len IN
         SliceTo(text, head_len) \o Ellipsis \o (IF tail_len >= 1 THEN SliceLast(text, tail_len) ELSE text)

\* SearchItem.snippet: the text when it fits; its first max_len characters
\* when max_len <= 3; else s[:head_len] + "..." + s[-tail_len:].
Snippet(text, max_len) ==
    IF Len(text) <= max_len THEN text
    ELSE IF max_len <= 3 THEN SliceTo(text, max_len)
    ELSE LET budget == max_len - 3
             head_len == budget \div 2
             tail_len == budget - head_len IN
         SliceTo(text, head_len) \o Ellipsis \o SliceLast(text, tail_len)

SnippetTexts == SeqsUpTo({"a", "."}, MaxText)
SnippetLens == -1..MaxText

\* ------------------------------------------------------- the service boundary
\* The state once SearchService is constructed: its store's collection
\* exists, as this code creates it or as an older one without the metadata
\* field; the shared embedder has a provider with both sync methods and has
\* its dimension cached when the store created the collection.
ServiceInit ==
    /\ collection \in [exists : {TRUE}, dim : Dims, has_metadata : BOOLEAN]
    /\ emb_cfg = [dim |-> 0, dimensions |-> 0]
    /\ emb_caps = [embed_documents |-> TRUE, embed_query |-> TRUE,
                   aembed_documents |-> FALSE, aembed_query |-> FALSE]
    /\ emb_dim \in {NoDim, collection.dim}
    /\ store = [constructed |-> TRUE, ranker_weights |-> None]
    /\ pc = "idle"
    /\ op = NoOp
    /\ calls = <<>>
    /\ loop = NoLoop
    /\ inst = <<>>

GetMilvusClientCall ==
    /\ pc = "idle"
    /\ \E a \in ClientArgs, env \in Environments : \E r \in GetMilvusClient(a, env) :
         /\ op' = [name |-> "get_milvus_client", args |-> a, err |-> r.err, ret |-> r.ret]
         /\ calls' = r.calls
    /\ pc' = "done"
    /\ UNCHANGED <<collection, emb_cfg, emb_caps, emb_dim, store, loop, inst>>

SearchByQueryCall ==
    /\ pc = "idle"
    /\ \E a \in SearchByQueryArgs : \E r \in SearchByQuery(Ctx, emb_dim, a.query, a.top_k, a.types) :
         /\ op' = [name |-> "search_by_query",
                   args |-> [query |-> a.query, top_k |-> a.top_k, types |-> a.types, cached |-> emb_dim],
                   err |-> r.err, ret |-> r.ret]
         /\ calls' = r.calls
         /\ emb_dim' = r.dim
    /\ pc' = "done"
    /\ UNCHANGED <<collection, emb_cfg, emb_caps, store, loop, inst>>

BuildFilterExpressionCall ==
    /\ pc = "idle"
    /\ \E types \in TypesArgs :
         op' = [name |-> "_build_filter_expression", args |-> [types |-> types],
                err |-> "none", ret |-> BuildFilterExpression(types)]
    /\ calls' = <<>>
    /\ pc' = "done"
    /\ UNCHANGED <<collection, emb_cfg, emb_caps, emb_dim, store, loop, inst>>

SearchSimilarByIdCall ==
    /\ pc = "idle"
    /\ \E top_k \in {0, 5}, types \in {None, Some(<<Dataset>>)} :
         \E r \in SearchSimilarById(emb_dim, CanonicalId, top_k, types) :
            /\ op' = [name |-> "search_similar_by_id",
                      args |-> [source_id |-> CanonicalId, top_k |-> top_k, types |-> types],
                      err |-> r.err, ret |-> r.ret]
            /\ calls' = r.calls
    /\ pc' = "done"
    /\ UNCHANGED <<collection, emb_cfg, emb_caps, emb_dim, store, loop, inst>>

\* A request to the application.
HttpCall ==
    /\ pc = "idle"
    /\ \E req \in Requests : \E r \in Serve(Ctx, emb_dim, req) :
         /\ op' = [name |-> "http", args |-> req, err |-> r.err, ret |-> r.ret]
         /\ calls' = r.calls
         /\ emb_dim' = r.dim
    /\ pc' = "done"
    /\ UNCHANGED <<collection, emb_cfg, emb_caps, store, loop, inst>>

\* The route functions of the search router, called with a request body.
RouteSearchByQueryCall ==
    /\ pc = "idle"
    /\ \E body \in Bodies : \E r \in RouteSearchByQuery(Ctx, emb_dim, body) :
         /\ op' = [name |-> "route_search_by_query", args |-> [body |-> body], err |-> r.err, ret |-> r.ret]
         /\ calls' = r.calls
         /\ emb_dim' = r.dim
    /\ pc' = "done"
    /\ UNCHANGED <<collection, emb_cfg, emb_caps, store, loop, inst>>

RouteSearchSimilarCall ==
    /\ pc = "idle"
    /\ \E body \in Bodies : \E r \in RouteSearchSimilar(emb_dim, body) :
         /\ op' = [name |-> "route_search_similar", args |-> [body |-> body], err |-> r.err, ret |-> r.ret]
         /\ calls' = r.calls
    /\ pc' = "done"
    /\ UNCHANGED <<collection, emb_cfg, emb_caps, emb_dim, store, loop, inst>>

SnippetCall ==
    /\ pc = "idle"
    /\ \E text \in SnippetTexts, max_len \in SnippetLens :
         op' = [name |-> "snippet", args |-> [text |-> text, max_len |-> max_len],
                err |-> "none", ret |-> Snippet(text, max_len)]
    /\ calls' = <<>>
    /\ pc' = "done"
    /\ UNCHANGED <<collection, emb_cfg, emb_caps, emb_dim, store, loop, inst>>

\* SearchItem.snippet on its own: no store, no embedder.
SnippetInit ==
    /\ collection = Absent
    /\ emb_cfg = [dim |-> 0, dimensions |-> 0]
    /\ emb_caps = [embed_documents |-> TRUE, embed_query |-> TRUE,
                   aembed_documents |-> FALSE, aembed_query |-> FALSE]
    /\ emb_dim = NoDim
    /\ store = [constructed |-> FALSE, ranker_weights |-> None]
    /\ pc = "idle"
    /\ op = NoOp
    /\ calls = <<>>
    /\ loop = NoLoop
    /\ inst = <<>>

SnippetNext ==
    \/ SnippetCall
    \/ Return

SnippetSpec == SnippetInit /\ [][SnippetNext]_vars

ServiceNext ==
    \/ GetMilvusClientCall
    \/ SearchByQueryCall
    \/ BuildFilterExpressionCall
    \/ SearchSimilarByIdCall
    \/ HttpCall
    \/ RouteSearchByQueryCall
    \/ RouteSearchSimilarCall
    \/ Return

ServiceSpec == ServiceInit /\ [][ServiceNext]_vars

\* ------------------------------------------- concurrent ensure_collection
\* The managers that run ensure_collection at once on one collection name.
MaxInstances == 2
Instances == 1..MaxInstances

\* Where a manager is in ensure_collection: before has_collection
\* ("check"), before self.embedder.dim ("dim"), before create_collection
\* ("create"), returned ("done") or raised ("failed").  existed records
\* whether the collection was there when create_collection was issued.
Manager(at, dim, err, existed) == [at |-> at, dim |-> dim, err |-> err, existed |-> existed]

RaceInit ==
    /\ collection = Absent
    /\ emb_cfg \in {[dim |-> 0, dimensions |-> 0], [dim |-> 1, dimensions |-> 0]}
    /\ emb_caps = [embed_documents |-> TRUE, embed_query |-> TRUE,
                   aembed_documents |-> FALSE, aembed_query |-> FALSE]
    /\ emb_dim = EmbedderInitDim(emb_cfg.dim)
    /\ store = [constructed |-> FALSE, ranker_weights |-> None]
    /\ pc = "idle"
    /\ op = NoOp
    /\ calls = <<>>
    /\ loop = NoLoop
    /\ inst = [i \in Instances |-> Manager("check", NoDim, "none", FALSE)]

\* if self.client.has_collection(self.name): return
HasCollectionStep(i) ==
    /\ inst[i].at = "check"
    /\ calls' = Append(calls, Call("index", "has_collection", [by |-> i], collection.exists))
    /\ inst' = [inst EXCEPT ![i].at = IF collection.exists THEN "done" ELSE "dim"]
    /\ UNCHANGED <<collection, emb_cfg, emb_caps, emb_dim, store, pc, op, loop>>

\* dim=self.embedder.dim, while the schema is built.
ResolveDimStep(i) ==
    /\ inst[i].at = "dim"
    /\ \E d \in EmbedderDim(emb_dim, CfgDim(emb_cfg), emb_caps) :
         /\ inst' = [inst EXCEPT ![i] = IF d.err # "none" THEN Manager("failed", NoDim, d.err, FALSE)
                                        ELSE Manager("create", d.ret, "none", FALSE)]
         /\ emb_dim' = d.dim
         /\ calls' = calls \o d.calls
    /\ UNCHANGED <<collection, emb_cfg, emb_caps, store, pc, op, loop>>

\* self.client.create_collection(collection_name=self.name, schema=schema, index_params=index_params)
CreateCollectionStep(i) ==
    /\ inst[i].at = "create"
    /\ \E a \in CreateAnswers(collection, inst[i].dim) :
         /\ calls' = Append(calls, Call("index", "create_collection",
                                        [by |-> i, dim |-> inst[i].dim, existed |-> collection.exists], a))
         /\ collection' = IF a = "none" /\ ~collection.exists THEN Created(inst[i].dim) ELSE collection
         /\ inst' = [inst EXCEPT ![i] = Manager(IF a = "none" THEN "done" ELSE "failed",
                                                inst[i].dim, a, collection.exists)]
    /\ UNCHANGED <<emb_cfg, emb_caps, emb_dim, store, pc, op, loop>>

RaceNext ==
    \/ \E i \in Instances : HasCollectionStep(i)
    \/ \E i \in Instances : ResolveDimStep(i)
    \/ \E i \in Instances : CreateCollectionStep(i)

RaceSpec == RaceInit /\ [][RaceNext]_vars

\* ------------------------------------------------------------------ claims
\* The index requests of the finished operation, and its provider requests.
IndexReqs == IndexCalls(calls)
ProviderReqs == ProviderCalls(calls)

\* The arguments of the finished upsert pass none / fail some length check.
UpsertLengthsDiffer ==
    \/ ~(Len(op.args.ids) = Len(op.args.texts) /\ Len(op.args.texts) = Len(op.args.dense_vectors))
    \/ (op.args.metadatas # None /\ Len(op.args.metadatas[1]) # Len(op.args.ids))

\* Some vector of the list has a length other than the resolved dimension.
SomeWrongDim(vectors) == emb_dim # NoDim /\ \E i \in 1..Len(vectors) : Len(vectors[i]) # emb_dim

SearchLengthsDiffer == Len(op.args.query_texts) # Len(op.args.query_denses)

\* C1: an upsert whose ids/texts/dense_vectors or metadatas lengths differ, or
\* with a vector of a length other than the expected dimension, and a
\* hybrid_search whose query lists differ in length or with a query vector of
\* the wrong dimension, each raise the validation error, and whenever the
\* validation error is raised the index has received no request.
C1_ValidationFailureSendsNothing ==
    /\ op.name = "upsert" =>
          /\ (UpsertLengthsDiffer \/ SomeWrongDim(op.args.dense_vectors)) => op.err = "ValueError"
          /\ op.err = "ValueError" => IndexReqs = <<>>
    /\ op.name = "hybrid_search" =>
          /\ SearchLengthsDiffer => op.err = "ValueError"
          /\ (~SearchLengthsDiffer /\ SomeWrongDim(op.args.query_denses)) => op.err = "ValueError"
          /\ op.err = "ValueError" => IndexReqs = <<>>

\* C1 witness: an upsert of equally long lists rejected for a vector's dimension.
C1_Witness ==
    /\ op.name = "upsert" /\ ~UpsertLengthsDiffer /\ Len(op.args.ids) = MaxRows
    /\ SomeWrongDim(op.args.dense_vectors)
    /\ op.err = "ValueError"

\* The finished upsert passed validation: its writes were attempted.
UpsertValidated ==
    /\ op.name = "upsert" /\ ~UpsertLengthsDiffer
    /\ emb_dim # NoDim /\ ~SomeWrongDim(op.args.dense_vectors)

\* The rows of an index write are the base rows, each with its metadata (None as {}).
CarriesMetadata(rows) ==
    /\ Len(rows) = Len(op.args.ids)
    /\ \A i \in 1..Len(rows) :
          /\ DOMAIN rows[i] = {"id", "text", "text_dense", "metadata"}
          /\ rows[i].id = op.args.ids[i] /\ rows[i].text = op.args.texts[i]
          /\ rows[i].text_dense = op.args.dense_vectors[i]
          /\ rows[i].metadata = (IF op.args.metadatas[1][i] = None THEN {} ELSE op.args.metadatas[1][i][1])

\* The rows of an index write are the base rows and have no metadata field.
CarriesNoMetadata(rows) ==
    /\ Len(rows) = Len(op.args.ids)
    /\ \A i \in 1..Len(rows) :
          /\ DOMAIN rows[i] = {"id", "text", "text_dense"}
          /\ rows[i].id = op.args.ids[i] /\ rows[i].text = op.args.texts[i]
          /\ rows[i].text_dense = op.args.dense_vectors[i]

\* C2: an upsert with metadatas writes the rows with their metadata first; it
\* writes once more, the same rows without metadata, exactly when that write
\* failed; it returns normally when its last write succeeded and raises the
\* last write's error otherwise.  Without metadatas it writes exactly once.
\* No upsert issues more than two writes.
C2_UpsertAttempts ==
    UpsertValidated =>
        LET w == IndexReqs IN
        /\ Len(w) \in {1, 2}
        /\ \A k \in 1..Len(w) : w[k].fn = "upsert"
        /\ op.args.metadatas = None => (Len(w) = 1 /\ CarriesNoMetadata(w[1].req.data))
        /\ op.args.metadatas # None =>
              /\ CarriesMetadata(w[1].req.data)
              /\ (Len(w) = 2) = (w[1].resp # "none")
              /\ Len(w) = 2 => CarriesNoMetadata(w[2].req.data)
        /\ op.err = w[Len(w)].resp

\* C2 witness: the write with metadata failed and the write without it succeeded.
C2_Witness ==
    /\ UpsertValidated /\ op.args.metadatas # None /\ Len(op.args.ids) = MaxRows
    /\ Len(IndexReqs) = 2 /\ IndexReqs[1].resp = "SchemaError" /\ op.err = "none"

\* The search requests of the finished operation.
SearchReqs == SelectSeq(calls, LAMBDA c : c.api = "index" /\ c.fn = "hybrid_search")

\* C3: when the first search request of a hybrid_search fails, exactly one
\* retry follows; the retry equals the first request in its sub-requests,
\* filter, ranker, limit and search parameters (the iterative-filter hint
\* included) and differs only in not asking for metadata; the retry's failure
\* is the operation's error.
C3_RetryIsTheSameSearch ==
    op.name = "hybrid_search" =>
        LET w == SearchReqs IN
        /\ Len(w) <= 2
        /\ Len(w) >= 1 => ((Len(w) = 2) = (w[1].resp # "none"))
        /\ Len(w) = 2 =>
              /\ w[2].req = [w[1].req EXCEPT !.output_fields = <<"id", "text", "text_dense">>]
              /\ op.err = w[2].resp

\* The weights the finished hybrid_search resolved are not a pair.
BadWeights == Len(Weights(op.args.ranker_weights, store.ranker_weights)) # 2

\* The finished hybrid_search got as far as its dimension and weight checks and fails one.
SearchFailsLateCheck ==
    /\ ~SearchLengthsDiffer /\ Len(op.args.query_texts) > 0 /\ emb_dim # NoDim
    /\ (SomeWrongDim(op.args.query_denses) \/ BadWeights)

\* C4 as stated: every validation error of upsert and hybrid_search is raised
\* before the operation has made any network call, to the index or to the
\* embedding provider.
C4_ValidationBeforeAnyCall ==
    (op.name \in {"upsert", "hybrid_search"} /\ op.err = "ValueError") => calls = <<>>

\* C4 amended: invalid lengths, dimensions and ranker weights raise the
\* validation error; it is raised before any request to the index; a length
\* mismatch is raised before any network call; a dimension or weight error is
\* preceded by at most one provider call, the sentinel probe that resolves the
\* expected dimension.
C4_ValidationBeforeIndexCall ==
    /\ op.name = "upsert" =>
          ((UpsertLengthsDiffer \/ SomeWrongDim(op.args.dense_vectors)) => op.err = "ValueError")
    /\ op.name = "hybrid_search" =>
          ((SearchLengthsDiffer \/ SearchFailsLateCheck) => op.err = "ValueError")
    /\ (op.name \in {"upsert", "hybrid_search"} /\ op.err = "ValueError") =>
          /\ IndexReqs = <<>>
          /\ Len(calls) <= 1
          /\ Len(calls) = 1 => (calls[1].api = "provider" /\ calls[1].req = <<"Hello World!">>)
          /\ (op.name = "upsert" /\ UpsertLengthsDiffer) => calls = <<>>
          /\ (op.name = "hybrid_search" /\ SearchLengthsDiffer) => calls = <<>>

\* C4 amended, second half: with a dimension already cached no provider call
\* precedes a validation error.
C4_NoProbeWhenCached ==
    (emb_dim # NoDim /\ op'.name \in {"upsert", "hybrid_search"} /\ op'.err = "ValueError")
        => calls' = <<>>

\* C4 amended, both halves: the state property above always holds and no
\* step of an operation with a cached dimension ends in a validation error
\* after a provider call.
C4_Amended == [](C4_ValidationBeforeIndexCall) /\ [][C4_NoProbeWhenCached]_vars

\* C4 witness: malformed ranker weights rejected after the probe resolved the dimension.
C4_Witness ==
    /\ op.name = "hybrid_search" /\ op.err = "ValueError"
    /\ ~SearchLengthsDiffer /\ ~SomeWrongDim(op.args.query_denses) /\ BadWeights
    /\ Len(calls) = 1

\* C5: an index call that fails as a provider failure (timeout, transport,
\* service) is not issued again by upsert or hybrid_search: it is the
\* operation's last index call and its error is the operation's error.
C5_ProviderFailureNotRetried ==
    op.name \in {"upsert", "hybrid_search"} =>
        \A k \in 1..Len(IndexReqs) :
            IndexReqs[k].resp = "ProviderError" => (k = Len(IndexReqs) /\ op.err = "ProviderError")

\* C6: every dense vector sent to the index, in an upserted row or as a search
\* query, has the dimension the target collection was created with.
C6_SentVectorsHaveCollectionDim ==
    \A k \in 1..Len(IndexReqs) :
        LET c == IndexReqs[k] IN
        /\ c.fn = "upsert" =>
              \A i \in 1..Len(c.req.data) : Len(c.req.data[i].text_dense) = collection.dim
        /\ c.fn = "hybrid_search" =>
              \A i \in 1..Len(c.req.reqs[1].data) : Len(c.req.reqs[1].data[i]) = collection.dim

\* C7: hybrid_search with no query texts and no query vectors returns the
\* empty result at once: no request to the index, no provider call, and no
\* check other than the length comparison (malformed weights are not rejected).
C7_EmptySearchReturnsAtOnce ==
    (op.name = "hybrid_search" /\ op.args.query_texts = <<>> /\ op.args.query_denses = <<>>) =>
        (op.err = "none" /\ op.ret = <<>> /\ calls = <<>>)

\* C7 witness: an empty search with malformed weights and no cached dimension.
C7_Witness ==
    /\ op.name = "hybrid_search" /\ op.args.query_texts = <<>> /\ op.args.query_denses = <<>>
    /\ op.args.ranker_weights = Some(<<1, 2, 3>>) /\ emb_dim = NoDim
    /\ op.err = "none"

\* C10: with a filter expression every search request carries it on both the
\* dense and the sparse sub-request and carries the iterative-filter hint;
\* without one no sub-request has a filter and no hint is sent.
C10_FilterOnBothAndHint ==
    op.name \in {"hybrid_search", "retrieve"} =>
        \A k \in 1..Len(SearchReqs) :
            LET q == SearchReqs[k].req
                f == op.args.filter_expression IN
            /\ q.reqs[1].expr = f /\ q.reqs[2].expr = f
            /\ f # None => q.search_params = Some([hints |-> "iterative_filter"])
            /\ f = None => q.search_params = None

\* The finished operation is a retrieve of a list of queries.
RetrievedList == op.name = "retrieve" /\ op.args.kind = "list"

\* The embedding requests of the finished operation (the sentinel probe aside).
EmbedReqs == SelectSeq(calls, LAMBDA c : c.api = "provider" /\ c.req # <<"Hello World!">>)

\* The ranked list a single search over all the queries returns for `text`,
\* with the given output fields (a SearchItem does not keep the vector).
UnbatchedItems(text, fields) == <<SearchItem(Hit(CanonicalId, text, <<>>, fields))>>

RECURSIVE Flatten(_)
Flatten(ss) == IF ss = <<>> THEN <<>> ELSE Head(ss) \o Flatten(Tail(ss))

\* The query texts of the searches that succeeded, in the order they were issued.
SearchedTexts ==
    Flatten([k \in 1..Len(SelectSeq(SearchReqs, LAMBDA c : c.resp = "none")) |->
                SelectSeq(SearchReqs, LAMBDA c : c.resp = "none")[k].req.reqs[2].data])

\* C8: a retrieve of a list of N queries that returns has returned N ranked
\* lists, the i-th being the list a single search over all N queries returns
\* for the i-th query; the chunks hold at most the batch size and are
\* searched in input order.
C8_BatchedEqualsUnbatched ==
    (RetrievedList /\ op.err = "none") =>
        /\ Len(op.ret) = Len(op.args.queries)
        /\ \A i \in 1..Len(op.ret) :
              op.ret[i] \in { UnbatchedItems(op.args.queries[i], <<"id", "text", "text_dense", "metadata">>),
                              UnbatchedItems(op.args.queries[i], <<"id", "text", "text_dense">>) }
        /\ SearchedTexts = op.args.queries
        /\ \A k \in 1..Len(SearchReqs) : Len(SearchReqs[k].req.reqs[2].data) <= DEFAULT_BATCH_SIZE

\* What every returning retrieve of a list does keep: the lists it returns
\* answer the first queries of the input, one each and in input order, from
\* chunks of at most the batch size searched in that order; all N queries are
\* answered when the provider gave one vector per query.
RetrievedPrefixInOrder ==
    (RetrievedList /\ op.err = "none") =>
        /\ Len(op.ret) <= Len(op.args.queries)
        /\ \A i \in 1..Len(op.ret) :
              op.ret[i] \in { UnbatchedItems(op.args.queries[i], <<"id", "text", "text_dense", "metadata">>),
                              UnbatchedItems(op.args.queries[i], <<"id", "text", "text_dense">>) }
        /\ SearchedTexts = SubSeq(op.args.queries, 1, Len(op.ret))
        /\ \A k \in 1..Len(SearchReqs) : Len(SearchReqs[k].req.reqs[2].data) <= DEFAULT_BATCH_SIZE
        /\ (\A k \in 1..Len(EmbedReqs) :
                (EmbedReqs[k].fn = "embed_documents" /\ EmbedReqs[k].resp.ok)
                    => EmbedReqs[k].resp.count = Len(EmbedReqs[k].req))
              => Len(op.ret) = Len(op.args.queries)

\* No provider call follows an index call.
EmbeddingBeforeSearch ==
    \A i \in 1..Len(calls), j \in 1..Len(calls) :
        (i < j /\ calls[i].api = "index") => calls[j].api # "provider"

\* C9 as stated: a retrieve of a list of N queries that returns has made one
\* embedding call, covering all N queries, and no provider call after a search.
C9_OneEmbeddingCall ==
    (RetrievedList /\ op.err = "none" /\ Len(op.args.queries) >= 1) =>
        /\ Len(ProviderReqs) = 1
        /\ ProviderReqs[1].req = op.args.queries
        /\ EmbeddingBeforeSearch

\* C9 amended: with queries_as_documents (the default) a retrieve of N >= 1
\* queries makes one embedding call, embed_documents over all N queries, when
\* the provider has a batch method, and none otherwise; without it, one
\* embedding call per query, in query order, all N of them when it returns.
\* Either way no provider call follows a search request.
C9_EmbeddingUpFront ==
    RetrievedList =>
        LET e == EmbedReqs
            n == Len(op.args.queries) IN
        /\ op.args.queries_as_documents =>
              /\ Len(e) = (IF n >= 1 /\ emb_caps.embed_documents THEN 1 ELSE 0)
              /\ \A k \in 1..Len(e) : e[k].fn = "embed_documents" /\ e[k].req = op.args.queries
        /\ ~op.args.queries_as_documents =>
              /\ Len(e) <= n
              /\ \A k \in 1..Len(e) : e[k].req = <<op.args.queries[k]>>
              /\ op.err = "none" => Len(e) = n
        /\ EmbeddingBeforeSearch

\* C9 witness: several queries embedded in one call and searched in two chunks.
C9_Witness ==
    /\ RetrievedList /\ op.args.queries_as_documents /\ op.err = "none"
    /\ Len(op.args.queries) > DEFAULT_BATCH_SIZE
    /\ Len(EmbedReqs) = 1 /\ Len(SearchReqs) >= 2

\* The finished hybrid_search got as far as resolving its weights.
SearchReachedWeights ==
    /\ ~SearchLengthsDiffer /\ Len(op.args.query_texts) > 0
    /\ emb_dim # NoDim /\ ~SomeWrongDim(op.args.query_denses)

\* The weights the claim expects: the call's when supplied, else the store's, else (0.5, 0.5).
ExpectedWeights ==
    IF op.args.ranker_weights # None THEN op.args.ranker_weights[1]
    ELSE IF store.ranker_weights # None THEN store.ranker_weights[1]
    ELSE <<5, 5>>

\* C11: every search request of a hybrid_search carries a ranker of exactly
\* two non-negative weights, the call's weights if supplied, else the store's,
\* else (0.5, 0.5); supplied weights of a length other than 2 are rejected
\* with the validation error and no request is sent.
C11_RankerIsTwoNonNegativeWeights ==
    op.name = "hybrid_search" =>
        /\ \A k \in 1..Len(SearchReqs) :
              LET r == SearchReqs[k].req.ranker IN
              /\ Len(r) = 2 /\ r[1] >= 0 /\ r[2] >= 0
              /\ r = ExpectedWeights
        /\ (SearchReachedWeights /\ op.args.ranker_weights # None /\ Len(op.args.ranker_weights[1]) # 2)
              => (op.err = "ValueError" /\ SearchReqs = <<>>)

\* clamp(x, lo, hi)
Clamp(x, lo, hi) == IF x < lo THEN lo ELSE IF x > hi THEN hi ELSE x

\* C12: for every limit, the dense and the sparse sub-request of every search
\* request ask for the same candidate pool, clamp(limit * 10, 512, 16384),
\* and the request itself asks for the caller's limit.
C12_PoolIsClampedLimit ==
    op.name \in {"hybrid_search", "retrieve"} =>
        \A k \in 1..Len(SearchReqs) :
            LET q == SearchReqs[k].req IN
            /\ q.reqs[1].limit = Clamp(op.args.limit * 10, 512, 16384)
            /\ q.reqs[2].limit = q.reqs[1].limit
            /\ q.limit = op.args.limit

\* C12 witness: a search and its retry with limit 1639, whose pool is the ceiling.
C12_Witness ==
    /\ op.name = "hybrid_search" /\ Len(SearchReqs) = 2
    /\ op.args.limit = 1639
    /\ SearchReqs[1].req.reqs[1].limit = 16384 /\ SearchReqs[2].req.reqs[2].limit = 16384

\* The identifiers of the hits the index returned to the finished operation.
ReturnedHitIds ==
    UNION { UNION { {SearchReqs[k].hits[i][j].id : j \in 1..Len(SearchReqs[k].hits[i])}
                    : i \in 1..Len(SearchReqs[k].hits) }
            : k \in 1..Len(SearchReqs) }

\* The ids of the SearchItems the finished retrieve returned.
ReturnedItemIds ==
    IF op.args.kind = "list"
    THEN UNION { {op.ret[i][j].id : j \in 1..Len(op.ret[i])} : i \in 1..Len(op.ret) }
    ELSE {op.ret[j].id : j \in 1..Len(op.ret)}

\* C14: every SearchItem a retrieve returns has as id the UUID parsed from the
\* identifier of its hit, and a retrieve that was given a hit whose identifier
\* is no UUID raises instead of returning: no item with such an id is returned.
C14_ReturnedIdsAreParsedUUIDs ==
    op.name = "retrieve" =>
        /\ op.err = "none" =>
              /\ ReturnedItemIds \subseteq {CanonicalId}
              /\ ReturnedHitIds \subseteq {CanonicalId, HexId}
              /\ Len(op.ret) > 0 => ReturnedItemIds # {}
        /\ (ReturnedHitIds \ {CanonicalId, HexId} # {}) => op.err = "ValueError"

\* C14 witness: the second chunk of a retrieve came back with an identifier
\* that is no UUID, after a first chunk whose identifiers were parsed.
C14_Witness ==
    /\ RetrievedList /\ op.err = "ValueError" /\ Len(SearchReqs) = 2
    /\ SearchReqs[1].resp = "none" /\ SearchReqs[1].hits[1][1].id = HexId
    /\ SearchReqs[2].resp = "none" /\ SearchReqs[2].hits[1][1].id = "program-17"

\* Every item of the ranked list answers the query `text`.
RankedListFor(items, text) == \A j \in 1..Len(items) : items[j].text = text

\* C13: a retrieve of a string returns one ranked list of SearchItems; a
\* retrieve of a list of N strings returns N ranked lists, the i-th for the
\* i-th query, also for N = 1 and N = 0; a retrieve of any other type raises
\* the error and contacts neither the provider nor the index.
C13_ShapeFollowsType ==
    op.name = "retrieve" =>
        /\ (op.args.kind = "str" /\ op.err = "none") => RankedListFor(op.ret, op.args.queries[1])
        /\ (op.args.kind = "list" /\ op.err = "none") =>
              /\ Len(op.ret) = Len(op.args.queries)
              /\ \A i \in 1..Len(op.ret) : RankedListFor(op.ret[i], op.args.queries[i])
        /\ op.args.kind = "other" => (op.err = "ValueError" /\ calls = <<>>)

\* What does hold of the shape: a string gives one ranked list for it, a list
\* gives a list of ranked lists for its first queries, at most one each, and
\* any other type gives the error with no call made.
RetrieveShapeByType ==
    op.name = "retrieve" =>
        /\ (op.args.kind = "str" /\ op.err = "none") => RankedListFor(op.ret, op.args.queries[1])
        /\ (op.args.kind = "list" /\ op.err = "none") =>
              /\ Len(op.ret) <= Len(op.args.queries)
              /\ \A i \in 1..Len(op.ret) : RankedListFor(op.ret[i], op.args.queries[i])
        /\ op.args.kind = "other" => (op.err = "ValueError" /\ calls = <<>>)

\* The create_collection and the drop_collection requests of the finished operation.
CreateReqs == SelectSeq(calls, LAMBDA c : c.api = "index" /\ c.fn = "create_collection")
DropReqs == SelectSeq(calls, LAMBDA c : c.api = "index" /\ c.fn = "drop_collection")

\* C15: ensure_collection creates the collection exactly when it is absent
\* and otherwise sends no create request and leaves the collection as it is;
\* drop_collection drops it exactly when it exists and otherwise sends no drop
\* request; an operation that raised changed nothing; and after either has
\* returned, doing it again changes nothing and sends no create or drop request.
C15_EnsureAndDropIdempotent ==
    /\ op.name = "ensure_collection" =>
          /\ op.args.before.exists =>
                (op.err = "none" /\ collection = op.args.before /\ CreateReqs = <<>>)
          /\ (~op.args.before.exists /\ op.err = "none") =>
                (collection.exists /\ Len(CreateReqs) = 1 /\ CreateReqs[1].resp = "none")
          /\ op.err # "none" => collection = op.args.before
          /\ op.err = "none" =>
                \A r \in EnsureCollection(Ctx, emb_dim) :
                    /\ r.err = "none" /\ r.col = collection
                    /\ \A k \in 1..Len(r.calls) : r.calls[k].fn = "has_collection"
    /\ op.name = "drop_collection" =>
          /\ ~op.args.before.exists =>
                (op.err = "none" /\ collection = op.args.before /\ DropReqs = <<>>)
          /\ (op.args.before.exists /\ op.err = "none") =>
                (~collection.exists /\ Len(DropReqs) = 1 /\ DropReqs[1].resp = "none")
          /\ op.err # "none" => collection = op.args.before
          /\ op.err = "none" =>
                \A r \in DropCollection(Ctx, emb_dim) :
                    /\ r.err = "none" /\ r.col = collection
                    /\ \A k \in 1..Len(r.calls) : r.calls[k].fn = "has_collection"

\* C15 witness: a drop of a collection that an earlier drop already removed.
C15_Witness ==
    /\ op.name = "drop_collection" /\ ~op.args.before.exists /\ store.constructed
    /\ op.err = "none" /\ ~collection.exists

\* C16: a reset sends its drop request before its create request; a reset
\* that returns leaves the collection present with the schema of a new
\* collection, created by this reset after the old one was dropped; a reset
\* interrupted between drop and ensure leaves the collection absent; and the
\* collection goes from present to absent only by a drop request that
\* succeeded, from absent to present only by a create request that succeeded.
C16_ResetDropsThenCreates ==
    /\ op.name = "reset" =>
          /\ \A i \in 1..Len(calls), j \in 1..Len(calls) :
                (calls[i].fn = "create_collection" /\ calls[j].fn = "drop_collection") => j < i
          /\ op.err = "none" =>
                /\ collection = Created(emb_dim)
                /\ Len(CreateReqs) = 1 /\ CreateReqs[1].resp = "none"
                /\ Len(DropReqs) = (IF op.args.before.exists THEN 1 ELSE 0)
                /\ \A k \in 1..Len(DropReqs) : DropReqs[k].resp = "none"
          /\ op.err = "Interrupted" => (~collection.exists /\ CreateReqs = <<>>)
    /\ op.name \in {"reset", "ensure_collection", "drop_collection"} =>
          /\ (op.args.before.exists /\ (~collection.exists \/ collection # op.args.before))
                => (Len(DropReqs) = 1 /\ DropReqs[1].resp = "none")
          /\ (collection.exists /\ collection # op.args.before)
                => (Len(CreateReqs) = 1 /\ CreateReqs[1].resp = "none")

\* C16 witness: a reset replaced a collection of another dimension and
\* without the metadata field by a newly created one.
C16_Witness ==
    /\ op.name = "reset" /\ op.err = "none"
    /\ op.args.before.exists /\ ~op.args.before.has_metadata /\ op.args.before.dim # emb_dim
    /\ collection = Created(emb_dim)
    /\ Len(calls) >= 4

\* C17: a read of Embedder.dim returns the configured dimension when that is
\* positive, with no provider call; otherwise the length of the vector the
\* provider returned for the sentinel string, asked through embed_documents,
\* or through embed_query when the provider has no embed_documents; a
\* configured value that is not positive is never returned.
C17_DimResolutionOrder ==
    (op.name = "dim" /\ op.err = "none") =>
        /\ op.ret > 0
        /\ CfgDim(emb_cfg) > 0 => (op.ret = CfgDim(emb_cfg) /\ calls = <<>>)
        /\ (CfgDim(emb_cfg) <= 0 /\ op.args.cached = NoDim) =>
              /\ Len(calls) = 1
              /\ calls[1].req = <<"Hello World!">>
              /\ calls[1].fn = (IF emb_caps.embed_documents THEN "embed_documents" ELSE "embed_query")
              /\ op.ret = calls[1].resp.dim

\* The finished operation is an embedding call on the Embedder.
EmbeddedBatch == op.name \in {"embed_documents", "aembed_documents"}
EmbeddedQuery == op.name \in {"embed_query", "aembed_query"}

\* The provider answered the finished embedding call, and with vectors of a
\* length other than the dimension cached before the call.
AnsweredOtherDim ==
    /\ Len(calls) = 1 /\ calls[1].resp.ok
    /\ op.args.cached # NoDim /\ calls[1].resp.dim # op.args.cached

\* C18, the cache: no step changes a cached dimension.
C18_CachedDimKept == emb_dim # NoDim => emb_dim' = emb_dim

\* C18, the call: an embedding call, sync or async, whose vectors have another
\* length than the cached dimension returns them as the provider gave them.
C18_MismatchReturned ==
    /\ (EmbeddedBatch /\ AnsweredOtherDim) =>
          /\ op.err = "none" /\ emb_dim = op.args.cached
          /\ Len(op.ret) = calls[1].resp.count
          /\ \A i \in 1..Len(op.ret) : Len(op.ret[i]) = calls[1].resp.dim
    /\ (EmbeddedQuery /\ AnsweredOtherDim) =>
          /\ op.err = "none" /\ emb_dim = op.args.cached
          /\ (calls[1].fn \in {"embed_query", "aembed_query"} \/ calls[1].resp.count > 0)
                => Len(op.ret) = calls[1].resp.dim

C20_EmptyInputTouchesNothing ==
    (EmbeddedBatch /\ op.args.texts = <<>>) =>
        (op.err = "none" /\ op.ret = <<>> /\ calls = <<>> /\ emb_dim = op.args.cached)

\* C20 witness: the async call with no texts on a provider without any
\* embedding method and with no dimension cached.
C20_Witness ==
    /\ op.name = "aembed_documents" /\ op.args.texts = <<>> /\ op.err = "none"
    /\ ~emb_caps.embed_documents /\ ~emb_caps.aembed_documents
    /\ ~emb_caps.embed_query /\ ~emb_caps.aembed_query
    /\ emb_dim = NoDim

\* C28: an upsert with metadatas on a collection whose schema has the metadata
\* field that returns without error has had its rows accepted with their
\* metadata (None as the empty map): no write the index accepted is a write
\* of rows without metadata.
C28_SuccessKeepsMetadata ==
    (/\ op.name = "upsert" /\ op.err = "none" /\ op.args.metadatas # None
     /\ collection.exists /\ collection.has_metadata) =>
        \A k \in 1..Len(IndexReqs) :
            IndexReqs[k].resp = "none" => CarriesMetadata(IndexReqs[k].req.data)

\* C29: a retrieve of a list of N queries that returns has returned exactly N
\* ranked lists, however many vectors the embedder returned.
C29_NoQuerySilentlyLost ==
    (RetrievedList /\ op.err = "none") => Len(op.ret) = Len(op.args.queries)

\* A call is in flight in the running task.
InFlight == pc = "running" /\ loop.inflight

\* C21: on the asynchronous paths (aembed_documents, aembed_query, aretrieve)
\* no call to the provider or the index is made on the event loop itself:
\* while a call is in flight the task is suspended at an await, so that the
\* other tasks of the loop can run.
C21_NoBlockingCallOnLoop == InFlight => Suspended

\* What the Embedder's own asynchronous methods keep: each of their provider
\* calls is an awaited coroutine or an awaited worker thread.
AEmbedCallsAreAwaited ==
    (InFlight /\ op.name \in {"aembed_documents", "aembed_query"}) => Suspended

\* The connectivity checks of the finished get_milvus_client, and its waits.
Checks == SelectSeq(calls, LAMBDA c : c.fn = "list_collections")
Sleeps == SelectSeq(calls, LAMBDA c : c.fn = "sleep")
WaitedForClient == op.name = "get_milvus_client" /\ op.args.wait_ready

\* A failed check that is not the last call is followed by a wait of
\* backoff_sec, and every wait follows a failed check.
BackoffBetweenChecks ==
    /\ \A k \in 1..Len(calls) :
          calls[k].fn = "sleep" =>
              (calls[k].req = op.args.backoff_sec /\ calls[k - 1].fn = "list_collections"
               /\ calls[k - 1].resp # "none")
    /\ \A k \in 1..(Len(calls) - 1) :
          ~(calls[k].fn = "list_collections" /\ calls[k + 1].fn = "list_collections")

\* C22: get_milvus_client with wait_ready returns a client only after a
\* connectivity check succeeded; it makes at most max(1, retries) checks,
\* waits backoff_sec between failed checks, and raises instead of returning
\* when no check succeeded, for every value of retries.
C22_ClientReturnedOnlyWhenReady ==
    WaitedForClient =>
        /\ Len(Checks) <= Max(1, op.args.retries)
        /\ BackoffBetweenChecks
        /\ op.err = "none" => (Len(Checks) >= 1 /\ Checks[Len(Checks)].resp = "none")
        /\ (\A k \in 1..Len(Checks) : Checks[k].resp # "none") => op.err # "none"

\* What holds for every retries >= 1: the same statement.
ClientReadyForPositiveRetries ==
    (WaitedForClient /\ op.args.retries >= 1) => C22_ClientReturnedOnlyWhenReady

\* The finished search_by_query had a query that is empty or all whitespace.
BlankQuery ==
    op.name = "search_by_query" /\ \A i \in 1..Len(op.args.query) : op.args.query[i] \in Whitespace

\* C23: search_by_query with an empty or whitespace-only query returns the
\* empty list and has made no call to the embedding provider or to the index
\* and left the embedder as it was, for every top_k and types.
C23_BlankQueryTouchesNothing ==
    BlankQuery => (op.err = "none" /\ op.ret = <<>> /\ calls = <<>> /\ emb_dim = op.args.cached)

\* C23 witness: a query of whitespace only, with a type filter, has returned.
C23_Witness ==
    /\ BlankQuery /\ Len(op.args.query) = 2 /\ op.args.types # None /\ op.args.types[1] # <<>>
    /\ op.err = "none" /\ op.ret = <<>> /\ calls = <<>>

\* How the index reads a list of string literals from position i of an
\* expression: the strings between double quotes, separated by ", ", up to
\* the element `stop`.  The result is the set read and the position of
\* `stop`; ok is FALSE when the text is no such list.
ReadFail == [ok |-> FALSE, value |-> {}, next |-> 0]

RECURSIVE ReadString(_, _, _)
ReadString(e, i, acc) ==
    IF i > Len(e) THEN [ok |-> FALSE, value |-> acc, next |-> i]
    ELSE IF e[i] = "\"" THEN [ok |-> TRUE, value |-> acc, next |-> i + 1]
    ELSE IF e[i] \in {FilterOpenType, FilterOpenObjectType, FilterClose}
    THEN [ok |-> FALSE, value |-> acc, next |-> i]
    ELSE ReadString(e, i + 1, Append(acc, e[i]))

RECURSIVE ReadList(_, _, _, _)
ReadList(e, i, stop, acc) ==
    IF i > Len(e) \/ e[i] # "\"" THEN ReadFail
    ELSE LET str == ReadString(e, i + 1, <<>>) IN
         IF ~str.ok \/ str.next > Len(e) THEN ReadFail
         ELSE IF e[str.next] = stop THEN [ok |-> TRUE, value |-> acc \cup {str.value}, next |-> str.next]
         ELSE IF str.next + 1 <= Len(e) /\ e[str.next] = "," /\ e[str.next + 1] = " "
         THEN ReadList(e, str.next + 2, stop, acc \cup {str.value})
         ELSE ReadFail

\* The two sets of an expression of the form
\* (metadata["type"] in [...]) or (metadata["object_type"] in [...]).
NoFilter == [ok |-> FALSE, type |-> {}, object_type |-> {}]

ReadFilter(e) ==
    IF Len(e) = 0 \/ e[1] # FilterOpenType THEN NoFilter
    ELSE LET first == ReadList(e, 2, FilterOpenObjectType, {}) IN
         IF ~first.ok THEN NoFilter
         ELSE LET second == ReadList(e, first.next + 1, FilterClose, {}) IN
              IF ~second.ok \/ second.next # Len(e) THEN NoFilter
              ELSE [ok |-> TRUE, type |-> first.value, object_type |-> second.value]

\* The trimmed, non-blank types of the finished _build_filter_expression.
SuppliedTypes ==
    IF op.args.types = None THEN {}
    ELSE {Strip(t) : t \in Range(op.args.types[1])} \ {<<>>}

\* C24: the filter is absent when types is None, empty or all blank;
\* otherwise it is one disjunction of two membership tests, of metadata
\* `type` and of metadata `object_type`, both over the set of the supplied
\* trimmed non-blank types.
C24_FilterMatchesSuppliedTypes ==
    op.name = "_build_filter_expression" =>
        IF SuppliedTypes = {} THEN op.ret = None
        ELSE /\ op.ret # None
             /\ ReadFilter(op.ret[1]) = [ok |-> TRUE, type |-> SuppliedTypes, object_type |-> SuppliedTypes]

\* What holds for types without a double quote in them: the same statement.
FilterOfQuoteFreeTypes ==
    (op.name = "_build_filter_expression"
     /\ \A t \in SuppliedTypes : "\"" \notin Range(t)) => C24_FilterMatchesSuppliedTypes

\* The items the retriever returned to the finished operation: the hits of
\* its last search, in ranked order (none when it searched nothing).
RetrievedHits ==
    IF SearchReqs = <<>> \/ SearchReqs[Len(SearchReqs)].resp # "none" THEN <<>>
    ELSE SearchReqs[Len(SearchReqs)].hits[1]

\* One {id, metadata} per retrieved item, in order: the id as the string of
\* the item's UUID, the metadata an empty map when the item has none.
ProjectsRetrieved(body) ==
    /\ Len(body) = Len(RetrievedHits)
    /\ \A i \in 1..Len(body) :
          /\ DOMAIN body[i] = {"id", "metadata"}
          /\ body[i].id = CanonicalId
          /\ body[i].metadata = (IF RetrievedHits[i].metadata = None THEN {} ELSE RetrievedHits[i].metadata[1])

\* The search_by_query the body asks for: the query as sent (stripped by the
\* service), top_k as the limit, the types as the filter.
RoutedToSearchByQuery(body) ==
    \/ \A i \in 1..Len(body.query) : body.query[i] \in Whitespace
    \/ /\ Len(calls) >= 1 /\ calls[1].api = "provider" /\ calls[1].req = <<Text(Strip(body.query))>>
       /\ \A k \in 1..Len(SearchReqs) :
             /\ SearchReqs[k].req.limit = TopK(body.options)
             /\ SearchReqs[k].req.reqs[1].expr = BuildFilterExpression(RequestTypes(body.filters))

\* C25: the application serves POST /search: a request {query, filters?,
\* options?} is routed to search_by_query and, when that returns, answered
\* with one {id, metadata} per retrieved item in the retriever's order.
C25_AppServesSearch ==
    (/\ op.name = "http" /\ op.args.method = "POST" /\ op.args.path = "/search"
     /\ ValidQueryRequest(op.args.body)) =>
        /\ op.ret.status \in {200, 500}
        /\ RoutedToSearchByQuery(op.args.body)
        /\ op.ret.status = 200 => ProjectsRetrieved(op.ret.body)

\* What the route function of the search router does when it is called: the
\* same statement.
RouteAnswersWithProjection ==
    (op.name = "route_search_by_query" /\ ValidQueryRequest(op.args.body)) =>
        /\ op.ret.status \in {200, 500}
        /\ RoutedToSearchByQuery(op.args.body)
        /\ op.ret.status = 200 => ProjectsRetrieved(op.ret.body)

\* C26: the operation "search similar to an existing item by id" always ends
\* in the not-implemented signal, through SearchService.search_similar_by_id
\* (NotImplementedError) and through POST /search/similar (status 501): it
\* never returns a value and never another error.
C26_SimilarIsNotImplemented ==
    /\ op.name = "search_similar_by_id" => op.err = "NotImplementedError"
    /\ (/\ op.name = "http" /\ op.args.method = "POST" /\ op.args.path = "/search/similar"
        /\ Len(op.args.body.query) >= 1 /\ TopK(op.args.body.options) \in 1..100) =>
           op.ret.status = 501

\* What the route function of the search router does when it is called with
\* a valid body: status 501.
RouteSimilarAnswers501 ==
    (/\ op.name = "route_search_similar"
     /\ Len(op.args.body.query) >= 1 /\ TopK(op.args.body.options) \in 1..100) =>
        op.ret.status = 501

\* str.count("..."): the occurrences of "..." in s, counted from the left
\* without overlap.
RECURSIVE CountEllipsis(_)
CountEllipsis(s) ==
    IF Len(s) < 3 THEN 0
    ELSE IF SubSeq(s, 1, 3) = Ellipsis THEN 1 + CountEllipsis(SubSeq(s, 4, Len(s)))
    ELSE CountEllipsis(Tail(s))

\* The finished snippet cut a text longer than a max_len of 4..10.
SnippetCut ==
    /\ op.name = "snippet" /\ op.args.max_len \in 4..10
    /\ Len(op.args.text) > op.args.max_len

\* The result is head + "..." + tail: the head the first floor((max_len - 3) / 2)
\* characters of the text, the tail its last characters, max_len in all.
HeadEllipsisTail ==
    LET head_len == (op.args.max_len - 3) \div 2
        tail_len == op.args.max_len - 3 - head_len
        n == Len(op.args.text) IN
    /\ Len(op.ret) = op.args.max_len
    /\ SubSeq(op.ret, 1, head_len) = SubSeq(op.args.text, 1, head_len)
    /\ SubSeq(op.ret, head_len + 1, head_len + 3) = Ellipsis
    /\ SubSeq(op.ret, head_len + 4, op.args.max_len) = SubSeq(op.args.text, n - tail_len + 1, n)

\* C27 as stated: for every text, the snippet is no longer than a max_len
\* above 3, is the text when the text fits, and for max_len in 4..10 and a
\* longer text contains "..." exactly once, has length max_len and is head +
\* "..." + tail with the head of floor((max_len - 3) / 2) characters.
C27_SnippetContract ==
    op.name = "snippet" =>
        /\ op.args.max_len > 3 => Len(op.ret) <= op.args.max_len
        /\ Len(op.args.text) <= op.args.max_len => op.ret = op.args.text
        /\ SnippetCut => (CountEllipsis(op.ret) = 1 /\ HeadEllipsisTail)

\* C27 amended: the same, the count of "..." being one when the head and
\* the tail taken from the text contain no "."; with a "." in them the
\* result can contain "..." more than once.
C27_SnippetContractDotFree ==
    op.name = "snippet" =>
        /\ op.args.max_len > 3 => Len(op.ret) <= op.args.max_len
        /\ Len(op.args.text) <= op.args.max_len => op.ret = op.args.text
        /\ SnippetCut =>
              /\ HeadEllipsisTail
              /\ CountEllipsis(op.ret) >= 1
              /\ "." \notin Range(op.args.text) => CountEllipsis(op.ret) = 1

\* C27 witness: a text of 11 characters without "." cut to max_len 10.
C27_Witness ==
    /\ SnippetCut /\ op.args.max_len = 10 /\ "." \notin Range(op.args.text)
    /\ Len(op.ret) = 10 /\ CountEllipsis(op.ret) = 1

\* C30: for any interleaving of concurrent ensure_collection calls on one
\* absent collection name, create_collection is never issued for a
\* collection that already exists, and no caller fails on a collection that
\* another caller created between its existence check and its create call.
C30_CreatedExactlyOnce ==
    /\ \A k \in 1..Len(calls) : calls[k].fn = "create_collection" => ~calls[k].req.existed
    /\ \A i \in DOMAIN inst : ~(inst[i].at = "failed" /\ inst[i].existed)

\* What a single caller keeps: alone, it never issues create_collection for
\* an existing collection.
AloneCreatesOnce ==
    (\A i \in DOMAIN inst : i # 1 => inst[i].at = "check") => C30_CreatedExactlyOnce
====
